---- MODULE Spec2Model ----
(***************************************************************************)
(* Household naming and relationship inference of nbasken/bloomerang.      *)
(* The repository holds two versions of the application, src/app.py and    *)
(* src/streamlit_app.py.  Definitions ending in _app model src/app.py,     *)
(* definitions ending in _st model src/streamlit_app.py, and definitions   *)
(* without a suffix model code that is textually the same in both files.   *)
(*                                                                         *)
(* Python strings are TLA+ strings.  f-strings are \o concatenations.     *)
(* str.lower() is the operator lower, tabulated over the strings the model *)
(* uses.  A Python value that is falsy ("" or None or []) is "" or <<>>.   *)
(***************************************************************************)
EXTENDS Integers, Sequences, FiniteSets, TLC

VARIABLES
    fargs,          \* arguments of format_household_names_with_relationship
    names_app,      \* its result in src/app.py (<<>> before the call)
    names_st,       \* its result in src/streamlit_app.py (<<>> before the call)
    fdone,          \* which versions have been called on fargs
    rargs,          \* the two role arguments of the role functions
    sib,            \* result of get_sibling_relationship (<<>> before the call)
    pair,           \* result of get_relationship_pair (<<>> before the call)
    par,            \* result of get_parent_relationship_from_child, as <<parent, child>>
    rel_call,       \* a call of create_relationship: answer and result (<<>> before the call)
    form,           \* create_new_household_interface: the widgets and new_children
    known,          \* first names the remote directory finds by name search
    run,            \* the last "Create Household" run: inputs and outputs (<<>> if none)
    sess,           \* add_to_existing_household_interface: the session state
    on_file,        \* the relationships the remote service holds for each member
    add_run,        \* the last "Add to Household" run (<<>> if none)
    sbf,            \* result of should_be_first, as <<result>> (<<>> before the call)
    cached,         \* the session caches: constituents, households, household members
    remote,         \* the remote service: the HouseholdId of every constituent
    added,          \* <<household, person>> pairs added successfully in this session
    cache_run,      \* the last call of a cached function (<<>> if none)
    secrets,        \* st.secrets: app_password and whether the API key is configured
    session_state,  \* st.session_state of the streamlit session, a function on its keys
    gate_run        \* the script runs of the streamlit session so far, oldest first

fvars == <<fargs, names_app, names_st, fdone>>
rvars == <<rargs, sib, pair, par, rel_call, sbf>>
hvars == <<form, known, run>>
avars == <<sess, on_file, add_run>>
cvars == <<cached, remote, added, cache_run>>
gvars == <<secrets, session_state, gate_run>>
vars == <<fvars, rvars, hvars, avars, cvars, gvars>>

(***************************************************************************)
(* Bounds                                                                  *)
(***************************************************************************)
MaxChildren == 2
\* children rows in the new-household form
MaxFormChildren == 3
\* members of the existing household
MaxMembers == 2
\* children rows in the forms that exercise the sibling loops
MaxSiblings == 4
\* constituents of the remote service in the model of the session caches
MaxPeople == 3
\* script runs of one streamlit session
MaxRuns == 6

(***************************************************************************)
(* Strings                                                                 *)
(***************************************************************************)
\* str.lower(): the pairs (s, s.lower()) of every string of the model that
\* contains an upper-case letter; every other string is its own lower case.
LowerPairs ==
    { <<"Husband", "husband">>, <<"Father", "father">>, <<"WIFE", "wife">>, <<"Mother", "mother">>,
      <<"Daughter", "daughter">>, <<"SON", "son">>, <<"Brother", "brother">>,
      <<" Husband ", " husband ">>,
      <<"John", "john">>, <<"Jane", "jane">>, <<"Smith", "smith">>,
      <<"SMITH", "smith">>, <<"Doe", "doe">>, <<"Amy", "amy">>,
      <<"Bob", "bob">>, <<"Cal", "cal">> }

lower(s) ==
    IF \E p \in LowerPairs : p[1] = s
    THEN (CHOOSE p \in LowerPairs : p[1] = s)[2]
    ELSE s

\* str.strip(): the pairs (s, s.strip()) of every string of the model with
\* leading or trailing blanks; every other string is its own strip().
StripPairs ==
    { <<" Husband ", "Husband">>, <<" husband ", "husband">> }

strip(s) ==
    IF \E p \in StripPairs : p[1] = s
    THEN (CHOOSE p \in StripPairs : p[1] = s)[2]
    ELSE s

\* Python truthiness of a str
truthy(s) == s # ""

(***************************************************************************)
(* format_household_names_with_relationship: the six name fields           *)
(***************************************************************************)
NameFields ==
    {"FullName", "SortName", "InformalName", "FormalName", "EnvelopeName",
     "RecognitionName"}

\* nested helpers of format_household_names_with_relationship
is_parent_child_relationship(r1, r2) ==
    LET parent_roles == {"mother", "father", "mom", "dad"}
        child_roles == {"daughter", "son", "child"}
        r1_lower == IF truthy(r1) THEN lower(r1) ELSE ""
        r2_lower == IF truthy(r2) THEN lower(r2) ELSE ""
    IN  \/ (r1_lower \in parent_roles /\ r2_lower \in child_roles)
        \/ (r1_lower \in child_roles /\ r2_lower \in parent_roles)

is_spouse_relationship(r1, r2) ==
    LET spouse_roles == {"husband", "wife", "spouse", "partner"}
        r1_lower == IF truthy(r1) THEN lower(r1) ELSE ""
        r2_lower == IF truthy(r2) THEN lower(r2) ELSE ""
    IN  r1_lower \in spouse_roles /\ r2_lower \in spouse_roles

is_unmarried_parents(r1, r2) ==
    LET parent_roles == {"mother", "father", "mom", "dad"}
        r1_lower == IF truthy(r1) THEN lower(r1) ELSE ""
        r2_lower == IF truthy(r2) THEN lower(r2) ELSE ""
    IN  /\ r1_lower \in parent_roles
        /\ r2_lower \in parent_roles
        /\ ~is_spouse_relationship(r1, r2)

is_sibling_relationship(r1, r2) ==
    LET sibling_roles == {"brother", "sister"}
        r1_lower == IF truthy(r1) THEN lower(r1) ELSE ""
        r2_lower == IF truthy(r2) THEN lower(r2) ELSE ""
    IN  r1_lower \in sibling_roles /\ r2_lower \in sibling_roles

is_single_parent(first2_param, last2_param, rel1_param, children_param) ==
    LET parent_roles == {"mother", "father", "mom", "dad"}
    IN  /\ (~truthy(first2_param) \/ ~truthy(last2_param))
        /\ lower(rel1_param) \in parent_roles
        /\ Len(children_param) > 0

\* The one-person template: "The {last} Family", "{last}, {first}", ...
single_names(title, first, last) ==
    [FullName        |-> "The " \o last \o " Family",
     SortName        |-> last \o ", " \o first,
     InformalName    |-> first,
     FormalName      |-> title \o " " \o last,
     EnvelopeName    |-> first \o " " \o last,
     RecognitionName |-> title \o " " \o first \o " " \o last]

\* "Husband and Wife (same last name)"
married_same_mut(first1, last1, first2) ==
    [FullName        |-> "The " \o first1 \o " " \o last1 \o " Family",
     SortName        |-> last1 \o ", " \o first1 \o " and " \o first2,
     InformalName    |-> first1 \o " and " \o first2,
     FormalName      |-> "Mr. and Ms. " \o last1,
     EnvelopeName    |-> first1 \o " and " \o first2 \o " " \o last1,
     RecognitionName |-> "Mr. and Mrs. " \o first1 \o " and " \o first2
                            \o " " \o last1]

married_same(first1, last1, first2) ==
    [FullName        |-> "The " \o first1 \o " " \o last1 \o " Family",
     SortName        |-> last1 \o ", " \o first1 \o " and " \o first2,
     InformalName    |-> first1 \o " and " \o first2,
     FormalName      |-> "Mr. and Mrs. " \o last1,
     EnvelopeName    |-> first1 \o " and " \o first2 \o " " \o last1,
     RecognitionName |-> "Mr. and Mrs. " \o first1 \o " and " \o first2
                            \o " " \o last1]

\* "Husband and Wife (different last name)": each adult with a title
titled_pair_mut(title1, title2, first1, last1, first2, last2) ==
    [FullName        |-> "The " \o last1 \o "/" \o last2 \o " Family",
     SortName        |-> last1 \o ", " \o first1 \o " and " \o first2
                            \o " " \o last2,
     InformalName    |-> first1 \o " and " \o first2,
     FormalName      |-> title1 \o " " \o last1 \o " and " \o title2
                            \o " " \o last2,
     EnvelopeName    |-> first1 \o " " \o last1 \o " and " \o first2
                            \o " " \o last2,
     RecognitionName |-> title1 \o " " \o first1 \o " " \o last1 \o " and "
                            \o title1 \o " " \o first2 \o " " \o last2]

titled_pair(title1, title2, first1, last1, first2, last2) ==
    [FullName        |-> "The " \o last1 \o "/" \o last2 \o " Family",
     SortName        |-> last1 \o ", " \o first1 \o " and " \o first2
                            \o " " \o last2,
     InformalName    |-> first1 \o " and " \o first2,
     FormalName      |-> title1 \o " " \o last1 \o " and " \o title2
                            \o " " \o last2,
     EnvelopeName    |-> first1 \o " " \o last1 \o " and " \o first2
                            \o " " \o last2,
     RecognitionName |-> title1 \o " " \o first1 \o " " \o last1 \o " and "
                            \o title2 \o " " \o first2 \o " " \o last2]

\* src/app.py "Siblings" (two adults, no children)
siblings_app(rel1, rel2, first1, last1, first2) ==
    LET title1 == IF lower(rel1) = "brother" THEN "Mr." ELSE "Ms."
        title2 == IF lower(rel2) = "brother" THEN "Mr." ELSE "Ms."
    IN  [FullName        |-> "The " \o last1 \o " Family",
         SortName        |-> last1 \o ", " \o first1 \o " and " \o first2,
         InformalName    |-> first1 \o " and " \o first2,
         FormalName      |-> title1 \o " " \o first1 \o " and " \o title2
                                \o " " \o first2 \o " " \o last1,
         EnvelopeName    |-> first1 \o " and " \o first2 \o " " \o last1,
         RecognitionName |-> title1 \o " " \o first1 \o " and " \o title2
                                \o " " \o first2 \o " " \o last1]

\* src/app.py "Same household - no relationship (same last name)"
no_relationship_same_app(first1, last1, first2) ==
    [FullName        |-> "The " \o last1 \o " Family",
     SortName        |-> last1 \o ", " \o first1 \o " and " \o first2,
     InformalName    |-> first1 \o " and " \o first2,
     FormalName      |-> "Mr. " \o first1 \o " " \o last1 \o " and Ms. "
                            \o first2 \o " " \o last1,
     EnvelopeName    |-> first1 \o " and " \o first2 \o " " \o last1,
     RecognitionName |-> "Mr. " \o first1 \o " and Ms. " \o first2
                            \o " " \o last1]

\* src/app.py FALLBACK: single person (possibly with children)
fallback_app(first1, last1, rel1, children) ==
    IF Len(children) > 0
    THEN single_names(IF lower(rel1) \in {"mother", "mom"} THEN "Ms." ELSE "Mr.",
                      first1, last1)
    ELSE single_names(IF lower(rel1) \in {"husband", "father", "brother"}
                      THEN "Mr." ELSE "Ms.",
                      first1, last1)

format_household_names_with_relationship_app(first1, last1, first2, last2, rel1, rel2, children) ==
    IF is_single_parent(first2, last2, rel1, children)
    THEN single_names(IF lower(rel1) \in {"mother", "mom"} THEN "Ms." ELSE "Mr.",
                      first1, last1)
    ELSE IF Len(children) > 0 /\ truthy(first2) /\ truthy(last2)
            /\ is_spouse_relationship(rel1, rel2)
    THEN IF lower(last1) = lower(last2)
         THEN married_same(first1, last1, first2)
         ELSE titled_pair("Mr.", "Ms.", first1, last1, first2, last2)
    ELSE IF Len(children) > 0 /\ truthy(first2) /\ truthy(last2)
            /\ is_unmarried_parents(rel1, rel2)
    THEN IF lower(last1) = lower(last2)
         THEN married_same(first1, last1, first2)
         ELSE titled_pair("Mr.", "Ms.", first1, last1, first2, last2)
    \* two adults with children and any other roles fall out of PRIORITY 2
    \* without returning and continue with PRIORITY 3
    ELSE IF truthy(first2) /\ truthy(last2)
    THEN IF is_spouse_relationship(rel1, rel2)
         THEN IF lower(last1) = lower(last2)
              THEN married_same(first1, last1, first2)
              ELSE titled_pair("Mr.", "Ms.", first1, last1, first2, last2)
         ELSE IF is_sibling_relationship(rel1, rel2)
         THEN siblings_app(rel1, rel2, first1, last1, first2)
         ELSE IF lower(last1) = lower(last2)
              THEN no_relationship_same_app(first1, last1, first2)
              ELSE titled_pair("Mr.", "Ms.", first1, last1, first2, last2)
    ELSE fallback_app(first1, last1, rel1, children)

\* src/streamlit_app.py "Same last name - unmarried parents" and
\* "Same last name - generic family format"
family_same_st(first1, last1, first2) ==
    [FullName        |-> "The " \o last1 \o " Family",
     SortName        |-> last1 \o ", " \o first1 \o " and " \o first2,
     InformalName    |-> first1 \o " and " \o first2,
     FormalName      |-> "The " \o last1 \o " Family",
     EnvelopeName    |-> first1 \o " and " \o first2 \o " " \o last1,
     RecognitionName |-> "The " \o first1 \o " and " \o first2 \o " "
                            \o last1 \o " Family"]

\* src/streamlit_app.py "Different last names - generic family format"
family_diff_st(first1, last1, first2, last2) ==
    [FullName        |-> "The " \o last1 \o "/" \o last2 \o " Family",
     SortName        |-> last1 \o ", " \o first1 \o " and " \o first2
                            \o " " \o last2,
     InformalName    |-> first1 \o " and " \o first2,
     FormalName      |-> "The " \o last1 \o "/" \o last2 \o " Family",
     EnvelopeName    |-> first1 \o " " \o last1 \o " and " \o first2
                            \o " " \o last2,
     RecognitionName |-> "The " \o first1 \o " " \o last1 \o " and "
                            \o first2 \o " " \o last2 \o " Family"]

\* src/streamlit_app.py "Parent-child relationship between adults"
parent_child_adults_st(first1, last1, first2, last2, rel1, rel2) ==
    LET parent_roles == {"mother", "father", "mom", "dad"}
    IN  IF lower(rel1) \in parent_roles
        THEN single_names(IF lower(rel1) \in {"mother", "mom"}
                          THEN "Ms." ELSE "Mr.", first1, last1)
        ELSE single_names(IF lower(rel2) \in {"mother", "mom"}
                          THEN "Ms." ELSE "Mr.", first2, last2)

\* src/streamlit_app.py "Sibling relationship with same last name"
siblings_same_st(first1, last1, first2) ==
    [FullName        |-> "The " \o last1 \o " Family",
     SortName        |-> last1 \o ", " \o first1 \o " and " \o first2,
     InformalName    |-> first1 \o " and " \o first2,
     FormalName      |-> "The " \o last1 \o " Siblings",
     EnvelopeName    |-> first1 \o " and " \o first2 \o " " \o last1,
     RecognitionName |-> first1 \o " and " \o first2 \o " " \o last1]

\* src/streamlit_app.py "Sibling relationship with different last names"
siblings_diff_st(first1, last1, first2, last2) ==
    [FullName        |-> "The " \o last1 \o "/" \o last2 \o " Family",
     SortName        |-> last1 \o ", " \o first1 \o " and " \o first2
                            \o " " \o last2,
     InformalName    |-> first1 \o " and " \o first2,
     FormalName      |-> "The " \o last1 \o "/" \o last2 \o " Siblings",
     EnvelopeName    |-> first1 \o " " \o last1 \o " and " \o first2
                            \o " " \o last2,
     RecognitionName |-> first1 \o " " \o last1 \o " and " \o first2
                            \o " " \o last2]

\* src/streamlit_app.py "Fallback for any remaining cases"
fallback_st_mut(first1, last1) ==
    [FullName        |-> "The " \o last1 \o " Family",
     SortName        |-> last1 \o ", " \o first1,
     InformalName    |-> first1,
     FormalName      |-> "The " \o last1 \o " Family",
     EnvelopeName    |-> first1 \o " " \o last1]

fallback_st(first1, last1) ==
    [FullName        |-> "The " \o last1 \o " Family",
     SortName        |-> last1 \o ", " \o first1,
     InformalName    |-> first1,
     FormalName      |-> "The " \o last1 \o " Family",
     EnvelopeName    |-> first1 \o " " \o last1,
     RecognitionName |-> "The " \o first1 \o " " \o last1 \o " Family"]

format_household_names_with_relationship_st(first1, last1, first2, last2, rel1, rel2, children) ==
    IF is_single_parent(first2, last2, rel1, children)
    THEN single_names(IF lower(rel1) \in {"mother", "mom"} THEN "Ms." ELSE "Mr.",
                      first1, last1)
    ELSE IF Len(children) > 0 /\ truthy(first2) /\ truthy(last2)
    THEN IF is_spouse_relationship(rel1, rel2)
         THEN IF lower(last1) = lower(last2)
              THEN married_same(first1, last1, first2)
              ELSE titled_pair("Mr.", "Mrs.", first1, last1, first2, last2)
         ELSE IF is_unmarried_parents(rel1, rel2)
         THEN IF lower(last1) = lower(last2)
              THEN family_same_st(first1, last1, first2)
              ELSE titled_pair(
                     IF lower(rel1) \in {"father", "dad"} THEN "Mr." ELSE "Ms.",
                     IF lower(rel2) \in {"father", "dad"} THEN "Mr." ELSE "Ms.",
                     first1, last1, first2, last2)
         ELSE IF lower(last1) = lower(last2)
              THEN family_same_st(first1, last1, first2)
              ELSE family_diff_st(first1, last1, first2, last2)
    ELSE IF truthy(first2) /\ truthy(last2) /\ Len(children) = 0
    THEN IF is_parent_child_relationship(rel1, rel2)
         THEN parent_child_adults_st(first1, last1, first2, last2, rel1, rel2)
         ELSE IF is_sibling_relationship(rel1, rel2)
                 /\ lower(last1) = lower(last2)
         THEN siblings_same_st(first1, last1, first2)
         ELSE IF is_sibling_relationship(rel1, rel2)
                 /\ lower(last1) # lower(last2)
         THEN siblings_diff_st(first1, last1, first2, last2)
         ELSE IF is_spouse_relationship(rel1, rel2)
         THEN IF lower(last1) = lower(last2)
              THEN married_same(first1, last1, first2)
              ELSE titled_pair("Mr.", "Mrs.", first1, last1, first2, last2)
         ELSE IF lower(last1) = lower(last2)
              THEN married_same(first1, last1, first2)
              ELSE titled_pair("Mr.", "Ms.", first1, last1, first2, last2)
    ELSE fallback_st(first1, last1)

(***************************************************************************)
(* Role functions                                                          *)
(***************************************************************************)
get_sibling_relationship_mut(child1_rel, child2_rel) ==
    LET rel1_lower == lower(child1_rel)
        rel2_lower == lower(child2_rel)
        gender1 == IF rel1_lower = "daughter" THEN "female"
                   ELSE IF rel1_lower = "son" THEN "male" ELSE "unknown"
        gender2 == IF rel2_lower = "daughter" THEN "female"
                   ELSE IF rel2_lower = "son" THEN "male" ELSE "unknown"
    IN  IF gender1 = "female" /\ gender2 = "female" THEN <<"sister", "sister">>
        ELSE IF gender1 = "male" /\ gender2 = "male" THEN <<"brother", "brother">>
        ELSE IF gender1 = "female" /\ gender2 = "male" THEN <<"brother", "sister">>
        ELSE IF gender1 = "male" /\ gender2 = "female" THEN <<"brother", "sister">>
        ELSE <<"sibling", "sibling">>

get_sibling_relationship(child1_rel, child2_rel) ==
    LET rel1_lower == lower(child1_rel)
        rel2_lower == lower(child2_rel)
        gender1 == IF rel1_lower = "daughter" THEN "female"
                   ELSE IF rel1_lower = "son" THEN "male" ELSE "unknown"
        gender2 == IF rel2_lower = "daughter" THEN "female"
                   ELSE IF rel2_lower = "son" THEN "male" ELSE "unknown"
    IN  IF gender1 = "female" /\ gender2 = "female" THEN <<"sister", "sister">>
        ELSE IF gender1 = "male" /\ gender2 = "male" THEN <<"brother", "brother">>
        ELSE IF gender1 = "female" /\ gender2 = "male" THEN <<"sister", "brother">>
        ELSE IF gender1 = "male" /\ gender2 = "female" THEN <<"brother", "sister">>
        ELSE <<"sibling", "sibling">>

get_parent_relationship_from_child(parent_rel, child_rel) ==
    LET parent_lower == lower(parent_rel)
    IN  IF parent_lower \in {"husband", "father", "dad"} THEN "father"
        ELSE IF parent_lower \in {"wife", "mother", "mom"} THEN "mother"
        ELSE parent_rel

\* "Parent-Child relationships": the member is father or mother
pair_for_parent_mut(member_role, base_rel) ==
    IF base_rel \in {"daughter", "son", "brother", "sister"}
    THEN <<member_role, base_rel>>
    ELSE <<member_role, IF member_role = "mother" THEN "daughter" ELSE "son">>

pair_for_parent(member_role, base_rel) ==
    IF base_rel \in {"daughter", "son"}
    THEN <<member_role, base_rel>>
    ELSE IF base_rel \in {"brother", "sister"}
    THEN <<member_role, IF base_rel = "sister" THEN "daughter" ELSE "son">>
    ELSE <<member_role, IF member_role = "mother" THEN "daughter" ELSE "son">>

\* "Sibling relationships": the member is brother or sister
pair_for_sibling_mut(member_role, base_rel) ==
    IF base_rel \in {"daughter", "son"}
    THEN <<member_role, IF member_role = "brother" THEN "sister" ELSE "brother">>
    ELSE IF base_rel \in {"brother", "sister"}
    THEN <<member_role, base_rel>>
    ELSE <<member_role, IF member_role = "brother" THEN "sister" ELSE "brother">>

pair_for_sibling(member_role, base_rel) ==
    IF base_rel \in {"daughter", "son"}
    THEN <<member_role, IF base_rel = "daughter" THEN "sister" ELSE "brother">>
    ELSE IF base_rel \in {"brother", "sister"}
    THEN <<member_role, base_rel>>
    ELSE <<member_role, IF member_role = "brother" THEN "sister" ELSE "brother">>

\* "Child to parent relationships": the member is daughter or son
pair_for_child_mut(member_role, base_rel) ==
    LET member_sibling == IF member_role = "daughter" THEN "sister" ELSE "brother"
    IN  IF base_rel \in {"father", "mother"}
        THEN <<member_role, base_rel>>
        ELSE IF base_rel \in {"daughter", "son"}
        THEN <<member_sibling, member_sibling>>
        ELSE IF base_rel \in {"brother", "sister"}
        THEN <<member_sibling, base_rel>>
        ELSE <<member_sibling,
               IF member_sibling = "brother" THEN "sister" ELSE "brother">>

pair_for_child(member_role, base_rel) ==
    LET member_sibling == IF member_role = "daughter" THEN "sister" ELSE "brother"
    IN  IF base_rel \in {"father", "mother"}
        THEN <<member_role, base_rel>>
        ELSE IF base_rel \in {"daughter", "son"}
        THEN <<member_sibling,
               IF base_rel = "daughter" THEN "sister" ELSE "brother">>
        ELSE IF base_rel \in {"brother", "sister"}
        THEN <<member_sibling, base_rel>>
        ELSE <<member_sibling,
               IF member_sibling = "brother" THEN "sister" ELSE "brother">>

\* "Fallback - treat as generic family relationship"
pair_fallback_mut(member_role, base_rel) == <<base_rel, member_role>>

pair_fallback(member_role, base_rel) == <<member_role, base_rel>>

get_relationship_pair(member_role_arg, new_person_base_relationship) ==
    LET member_role == lower(member_role_arg)
        base_rel == lower(new_person_base_relationship)
    IN  IF member_role \in {"father", "mother"}
        THEN pair_for_parent(member_role, base_rel)
        ELSE IF member_role \in {"brother", "sister"}
        THEN pair_for_sibling(member_role, base_rel)
        ELSE IF member_role \in {"daughter", "son"}
        THEN pair_for_child(member_role, base_rel)
        ELSE pair_fallback(member_role, base_rel)

RELATIONSHIP_ROLES ==
    {"brother", "co-worker", "daughter", "employee", "employer", "father",
     "friend", "husband", "mother", "partner", "sister", "son", "wife",
     "mom", "dad"}

(***************************************************************************)
(* create_relationship.  An answer of the remote service to the POST is a  *)
(* record: raised says that the request raised an exception instead of     *)
(* returning; otherwise status is the HTTP status and already_exists says  *)
(* that the service refused the relationship because it is on file.        *)
(***************************************************************************)
\* the body of the try block: "True", "False", or "raise"
create_relationship_try(rel1, rel2, answer) ==
    IF lower(rel1) \notin RELATIONSHIP_ROLES \/ lower(rel2) \notin RELATIONSHIP_ROLES
    THEN "False"
    ELSE IF answer.raised THEN "raise"
    ELSE IF answer.status \notin {200, 201}
    THEN (IF answer.status = 400 THEN "True" ELSE "False")
    ELSE "True"

\* whether the POST is made
create_relationship_posts_mut(rel1, rel2) ==
    lower(rel1) \in RELATIONSHIP_ROLES

create_relationship_posts(rel1, rel2) ==
    lower(rel1) \in RELATIONSHIP_ROLES /\ lower(rel2) \in RELATIONSHIP_ROLES

\* the function: what it returns, "raise" if an exception leaves it
create_relationship(rel1, rel2, answer) ==
    IF create_relationship_try(rel1, rel2, answer) = "raise" THEN "False"
    ELSE create_relationship_try(rel1, rel2, answer)

\* answers of the remote service
Answers ==
    [raised : {FALSE}, status : {200, 201, 404, 500}, already_exists : {FALSE}]
        \cup [raised : {FALSE}, status : {400}, already_exists : BOOLEAN]
        \cup [raised : {TRUE}, status : {0}, already_exists : {FALSE}]

(***************************************************************************)
(* Inputs of the name formatter                                            *)
(***************************************************************************)
\* role strings: the vocabulary, blank, other cases, padding, unrecognized
RoleInputs ==
    {"", "husband", "wife", "spouse", "partner", "father", "mother", "mom",
     "dad", "brother", "sister", "son", "daughter", "child",
     "Husband", "Mother", "Daughter", "SON", "Brother", " Husband ", "uncle"}

ChildRoles == {"daughter", "son"}

ChildPeople ==
    [first_name : {"Amy"}, last_name : {"Smith"}, relationship : ChildRoles]

RECURSIVE SeqsUpTo(_, _)
SeqsUpTo(S, n) ==
    IF n = 0 THEN {<<>>}
    ELSE LET shorter == SeqsUpTo(S, n - 1)
         IN  shorter \cup {Append(q, e) : q \in {t \in shorter : Len(t) = n - 1},
                                          e \in S}

\* the children argument matters to the formatter only by its length
FormatChildren ==
    {q \in SeqsUpTo(ChildPeople, MaxChildren) :
        \A i \in 1..Len(q) : q[i].relationship = "daughter"}

FormatInputs ==
    [first1 : {"John", ""}, last1 : {"Smith", "SMITH", ""},
     first2 : {"Jane", ""}, last2 : {"Smith", "Doe", ""},
     rel1 : RoleInputs, rel2 : RoleInputs, children : FormatChildren]

\* the variables of a part of the model that a specification does not use
FormatIdle == fargs = <<>> /\ names_app = <<>> /\ names_st = <<>> /\ fdone = {}
RolesIdle ==
    /\ rargs = <<>> /\ sib = <<>> /\ pair = <<>> /\ par = <<>>
    /\ rel_call = <<>> /\ sbf = <<>>
HouseholdIdle == form = <<>> /\ known = {} /\ run = <<>>
AddIdle == sess = <<>> /\ on_file = <<>> /\ add_run = <<>>
CacheIdle == cached = <<>> /\ remote = <<>> /\ added = {} /\ cache_run = <<>>
GateIdle == secrets = <<>> /\ session_state = <<>> /\ gate_run = <<>>

(***************************************************************************)
(* Specification of the name formatter: the arguments are drawn in the     *)
(* initial state and each version of the function is applied to them.      *)
(***************************************************************************)
InitFormat ==
    /\ fargs \in FormatInputs
    /\ names_app = <<>>
    /\ names_st = <<>>
    /\ fdone = {}
    /\ RolesIdle
    /\ HouseholdIdle
    /\ AddIdle
    /\ CacheIdle
    /\ GateIdle

CallFormatApp ==
    /\ fargs # <<>>
    /\ "app" \notin fdone
    /\ names_app' = format_household_names_with_relationship_app(
                        fargs.first1, fargs.last1, fargs.first2, fargs.last2,
                        fargs.rel1, fargs.rel2, fargs.children)
    /\ fdone' = fdone \cup {"app"}
    /\ UNCHANGED <<fargs, names_st, rvars, hvars, avars, cvars, gvars>>

CallFormatSt ==
    /\ fargs # <<>>
    /\ "st" \notin fdone
    /\ names_st' = format_household_names_with_relationship_st(
                        fargs.first1, fargs.last1, fargs.first2, fargs.last2,
                        fargs.rel1, fargs.rel2, fargs.children)
    /\ fdone' = fdone \cup {"st"}
    /\ UNCHANGED <<fargs, names_app, rvars, hvars, avars, cvars, gvars>>

NextFormat == CallFormatApp \/ CallFormatSt

SpecFormat == InitFormat /\ [][NextFormat]_vars

(***************************************************************************)
(* Claims about the name formatter                                         *)
(***************************************************************************)
second_present == truthy(fargs.first2) /\ truthy(fargs.last2)

both_spouse_roles ==
    /\ lower(fargs.rel1) \in {"husband", "wife", "spouse", "partner"}
    /\ lower(fargs.rel2) \in {"husband", "wife", "spouse", "partner"}

\* C1: for every combination of string arguments each version of the
\* formatter returns a result with exactly the six name fields, each bound
\* to a string.
C1_SixFields ==
    /\ "app" \in fdone =>
          /\ DOMAIN names_app = NameFields
          /\ \A k \in NameFields : names_app[k] \in STRING
    /\ "st" \in fdone =>
          /\ DOMAIN names_st = NameFields
          /\ \A k \in NameFields : names_st[k] \in STRING

\* C1 witness: both versions have returned for an input with blank names,
\* an unrecognized role and children.
C1_Witness ==
    /\ fdone = {"app", "st"}
    /\ fargs.first1 = "" /\ fargs.last2 = ""
    /\ fargs.rel1 = "uncle" /\ fargs.rel2 = ""
    /\ Len(fargs.children) > 0

\* the married, same-surname template written out for the arguments
C2_Expected ==
    [FullName        |-> "The " \o fargs.first1 \o " " \o fargs.last1
                            \o " Family",
     SortName        |-> fargs.last1 \o ", " \o fargs.first1 \o " and "
                            \o fargs.first2,
     InformalName    |-> fargs.first1 \o " and " \o fargs.first2,
     FormalName      |-> "Mr. and Mrs. " \o fargs.last1,
     EnvelopeName    |-> fargs.first1 \o " and " \o fargs.first2 \o " "
                            \o fargs.last1,
     RecognitionName |-> "Mr. and Mrs. " \o fargs.first1 \o " and "
                            \o fargs.first2 \o " " \o fargs.last1]

\* C2: with both adults present, two spouse roles and equal surnames, the
\* formatter returns the "Mr. and Mrs." template in all six fields, with
\* and without children (in both versions of the function).
C2_MarriedSameSurname ==
    (second_present /\ both_spouse_roles /\ fargs.last1 = fargs.last2) =>
        /\ "app" \in fdone => names_app = C2_Expected
        /\ "st" \in fdone => names_st = C2_Expected

\* C2 witness: a married couple with the same surname and a child, after
\* both versions have returned.
C2_Witness ==
    /\ fdone = {"app", "st"}
    /\ fargs.first1 = "John" /\ fargs.last1 = "Smith"
    /\ fargs.first2 = "Jane" /\ fargs.last2 = "Smith"
    /\ fargs.rel1 = "husband" /\ fargs.rel2 = "wife"
    /\ Len(fargs.children) = 1
    /\ names_app.FormalName = "Mr. and Mrs. Smith"
    /\ names_app.FullName = "The John Smith Family"

\* the two-surname template with the given title of the second spouse
C3_Expected(title2, names) ==
    /\ names.FullName = "The " \o fargs.last1 \o "/" \o fargs.last2 \o " Family"
    /\ names.FormalName = "Mr. " \o fargs.last1 \o " and " \o title2 \o " "
                             \o fargs.last2
    /\ names.RecognitionName =
          "Mr. " \o fargs.first1 \o " " \o fargs.last1 \o " and " \o title2
             \o " " \o fargs.first2 \o " " \o fargs.last2

\* C3 (as stated): with both adults present, two spouse roles and
\* last1 different from last2, every version returns the two-surname
\* template with the title "Ms." for the second spouse.
C3_Original ==
    (second_present /\ both_spouse_roles /\ fargs.last1 # fargs.last2) =>
        /\ "app" \in fdone => C3_Expected("Ms.", names_app)
        /\ "st" \in fdone => C3_Expected("Ms.", names_st)

\* C3 (amended): with both adults present, two spouse roles and surnames
\* that differ even when letter case is ignored, both versions return
\* FullName "The {last1}/{last2} Family"; src/app.py titles the second
\* spouse "Ms." and src/streamlit_app.py titles the second spouse "Mrs.".
C3_MarriedDifferentSurname ==
    (second_present /\ both_spouse_roles
        /\ lower(fargs.last1) # lower(fargs.last2)) =>
        /\ "app" \in fdone => C3_Expected("Ms.", names_app)
        /\ "st" \in fdone => C3_Expected("Mrs.", names_st)

\* C3 witness: John Smith (husband) and Jane Doe (wife), no children, after
\* both versions have returned.
C3_Witness ==
    /\ fdone = {"app", "st"}
    /\ fargs.first1 = "John" /\ fargs.last1 = "Smith"
    /\ fargs.first2 = "Jane" /\ fargs.last2 = "Doe"
    /\ fargs.rel1 = "husband" /\ fargs.rel2 = "wife"
    /\ Len(fargs.children) = 0
    /\ names_app.FullName = "The Smith/Doe Family"
    /\ names_st.FormalName = "Mr. Smith and Mrs. Doe"

\* the single-parent template written out for the arguments
C4_Expected ==
    LET title == IF lower(fargs.rel1) \in {"mother", "mom"} THEN "Ms." ELSE "Mr."
    IN  [FullName        |-> "The " \o fargs.last1 \o " Family",
         SortName        |-> fargs.last1 \o ", " \o fargs.first1,
         InformalName    |-> fargs.first1,
         FormalName      |-> title \o " " \o fargs.last1,
         EnvelopeName    |-> fargs.first1 \o " " \o fargs.last1,
         RecognitionName |-> title \o " " \o fargs.first1 \o " " \o fargs.last1]

\* C4: whenever the second adult is absent (first2 or last2 empty) and
\* children is non-empty, the formatter returns the single-parent template
\* with the title "Ms." for a mother role and "Mr." otherwise, for every
\* role1, in each version of the function.
C4_SingleParentTemplate ==
    (~second_present /\ Len(fargs.children) > 0) =>
        /\ "app" \in fdone => names_app = C4_Expected
        /\ "st" \in fdone => names_st = C4_Expected

\* C4 restricted to src/app.py, where it holds
C4_SingleParentTemplateApp ==
    (~second_present /\ Len(fargs.children) > 0 /\ "app" \in fdone) =>
        names_app = C4_Expected

(***************************************************************************)
(* Specification of the role functions: two role strings are drawn in the  *)
(* initial state and each function is applied to them.                     *)
(***************************************************************************)
InitRoles ==
    /\ rargs \in [r1 : RoleInputs, r2 : RoleInputs]
    /\ sib = <<>>
    /\ pair = <<>>
    /\ par = <<>>
    /\ rel_call = <<>>
    /\ sbf = <<>>
    /\ FormatIdle
    /\ HouseholdIdle
    /\ AddIdle
    /\ CacheIdle
    /\ GateIdle

CallSibling ==
    /\ rargs # <<>>
    /\ sib = <<>>
    /\ sib' = get_sibling_relationship(rargs.r1, rargs.r2)
    /\ UNCHANGED <<rargs, pair, par, rel_call, sbf, fvars, hvars, avars, cvars, gvars>>

CallPair ==
    /\ rargs # <<>>
    /\ pair = <<>>
    /\ pair' = get_relationship_pair(rargs.r1, rargs.r2)
    /\ UNCHANGED <<rargs, sib, par, rel_call, sbf, fvars, hvars, avars, cvars, gvars>>

CallParentFromChild ==
    /\ rargs # <<>>
    /\ par = <<>>
    /\ par' = <<get_parent_relationship_from_child(rargs.r1, rargs.r2), rargs.r2>>
    /\ UNCHANGED <<rargs, sib, pair, rel_call, sbf, fvars, hvars, avars, cvars, gvars>>

\* one call of create_relationship with the roles rel1 and rel2
create_relationship_call(rel1, rel2, answer) ==
    [rel1 |-> rel1, rel2 |-> rel2,
     posted |-> create_relationship_posts(rel1, rel2),
     answer |-> answer,
     result |-> create_relationship(rel1, rel2, answer)]

CallCreateRelationship ==
    /\ rargs # <<>>
    /\ rel_call = <<>>
    /\ \E answer \in Answers :
          rel_call' = create_relationship_call(rargs.r1, rargs.r2, answer)
    /\ UNCHANGED <<rargs, sib, pair, par, sbf, fvars, hvars, avars, cvars, gvars>>

\* the sibling edge of two children: the pair that get_sibling_relationship
\* returned is handed to create_relationship
CallCreateSiblingRelationship ==
    /\ rargs # <<>>
    /\ sib # <<>>
    /\ rel_call = <<>>
    /\ \E answer \in Answers :
          rel_call' = create_relationship_call(sib[1], sib[2], answer)
    /\ UNCHANGED <<rargs, sib, pair, par, sbf, fvars, hvars, avars, cvars, gvars>>

NextRoles ==
    \/ CallSibling
    \/ CallPair
    \/ CallParentFromChild
    \/ CallCreateRelationship
    \/ CallCreateSiblingRelationship

SpecRoles == InitRoles /\ [][NextRoles]_vars

(***************************************************************************)
(* Claims about the role functions                                         *)
(***************************************************************************)
\* C5: get_sibling_relationship maps (daughter, daughter) to (sister, sister),
\* (son, son) to (brother, brother), (daughter, son) to (sister, brother),
\* (son, daughter) to (brother, sister) and every other pair of roles to
\* (sibling, sibling), roles being read without regard to letter case; when
\* both roles are daughter or son, each component of the result is decided
\* by the argument in the same position alone.
C5_SiblingTable ==
    sib # <<>> =>
        LET a == lower(rargs.r1)
            b == lower(rargs.r2)
            own(r) == IF r = "daughter" THEN "sister" ELSE "brother"
        IN  /\ (a = "daughter" /\ b = "daughter") => sib = <<"sister", "sister">>
            /\ (a = "son" /\ b = "son") => sib = <<"brother", "brother">>
            /\ (a = "daughter" /\ b = "son") => sib = <<"sister", "brother">>
            /\ (a = "son" /\ b = "daughter") => sib = <<"brother", "sister">>
            /\ (a \notin {"daughter", "son"} \/ b \notin {"daughter", "son"})
                  => sib = <<"sibling", "sibling">>
            /\ (a \in {"daughter", "son"} /\ b \in {"daughter", "son"})
                  => sib = <<own(a), own(b)>>

\* C5 witness: get_sibling_relationship("daughter", "son") has returned
\* ("sister", "brother").
C5_Witness ==
    /\ rargs # <<>>
    /\ rargs.r1 = "daughter" /\ rargs.r2 = "son"
    /\ sib = <<"sister", "brother">>

(***************************************************************************)
(* create_new_household_interface and create_household_with_children       *)
(*                                                                         *)
(* form holds the widget values of one version of the page: ver ("app" or  *)
(* "st"), search_method, the two adults' names and roles and new_children, *)
(* a sequence of [first_name, last_name, relationship] (src/app.py names   *)
(* the first two keys 'first' and 'last').  With "By Account Number" the   *)
(* names of an adult are the ones looked up for its account number, blank  *)
(* when the account is blank or not found.  A person is a record           *)
(* [FirstName, LastName, Id], Id = 0 standing for a dict without "Id".     *)
(* An edge is <<index1, index2, role1, role2>> with the 0-based indices    *)
(* of the code.                                                            *)
(***************************************************************************)
should_be_first(relationship) ==
    LET rel == strip(lower(relationship))
    IN  rel \in {"husband", "father", "mother", "dad", "mom"}

\* the "Id" the remote directory holds for a first name
IdOf(first_name) ==
    CASE first_name = "John" -> 101
      [] first_name = "Jane" -> 102
      [] first_name = "Amy" -> 103
      [] OTHER -> 104

\* search_constituents followed by the "not found - will create new
\* constituent" default: the person found, or a new dict without Id
search_constituents(first_name, last_name) ==
    [FirstName |-> first_name, LastName |-> last_name,
     Id |-> IF first_name \in known THEN IdOf(first_name) ELSE 0]

\* search_constituent_by_account_number for the account whose lookup gave
\* these names on the page
search_constituent_by_account_number(first_name, last_name) ==
    [FirstName |-> first_name, LastName |-> last_name, Id |-> IdOf(first_name)]

\* ---- src/streamlit_app.py ----
has_person1_st(f) == truthy(f.first1) /\ truthy(f.last1)
has_person2_st(f) == truthy(f.first2) /\ truthy(f.last2)

\* "Determine proper order for parents"
ordered_people_st(f) ==
    IF has_person2_st(f) /\ truthy(f.rel1) /\ truthy(f.rel2)
       /\ should_be_first(f.rel2) /\ ~should_be_first(f.rel1)
    THEN [first1 |-> f.first2, last1 |-> f.last2, rel1 |-> f.rel2,
          first2 |-> f.first1, last2 |-> f.last1, rel2 |-> f.rel1]
    ELSE [first1 |-> f.first1, last1 |-> f.last1, rel1 |-> f.rel1,
          first2 |-> f.first2, last2 |-> f.last2, rel2 |-> f.rel2]

\* "Collect all valid children"
valid_child_st(child) == truthy(child.first_name) /\ truthy(child.last_name)
valid_children_st(f) == SelectSeq(f.children, valid_child_st)

\* "Generate household names"
household_names_st(f) ==
    LET o == ordered_people_st(f)
        has2 == has_person2_st(f)
    IN  format_household_names_with_relationship_st(
            o.first1, o.last1,
            IF has2 THEN o.first2 ELSE "", IF has2 THEN o.last2 ELSE "",
            o.rel1, IF has2 THEN o.rel2 ELSE "", valid_children_st(f))

\* "Search for all constituents": all_people_data
RECURSIVE children_data_st(_, _, _)
children_data_st(f, vc, i) ==
    IF i > Len(vc) THEN <<>>
    ELSE <<IF f.search_method = "By Name"
           THEN search_constituents(vc[i].first_name, vc[i].last_name)
           ELSE search_constituent_by_account_number(vc[i].first_name,
                                                     vc[i].last_name)>>
         \o children_data_st(f, vc, i + 1)

all_people_data_st(f) ==
    LET o == ordered_people_st(f)
        person1 == IF f.search_method = "By Name"
                   THEN search_constituents(o.first1, o.last1)
                   ELSE search_constituent_by_account_number(f.first1, f.last1)
        person2 == IF f.search_method = "By Name"
                   THEN search_constituents(o.first2, o.last2)
                   ELSE search_constituent_by_account_number(f.first2, f.last2)
    IN  <<person1>> \o (IF has_person2_st(f) THEN <<person2>> ELSE <<>>)
            \o children_data_st(f, valid_children_st(f), 1)

\* "Parent-child relationships": the loop over valid_children from child i
RECURSIVE parent_child_edges_st(_, _, _, _, _)
parent_child_edges_st(o, person2, vc, first_child_index, i) ==
    IF i > Len(vc) THEN <<>>
    ELSE LET child == vc[i]
             child_index == first_child_index + (i - 1)
             to1 == IF truthy(o.rel1)
                    THEN << <<0, child_index,
                              get_parent_relationship_from_child(
                                  o.rel1, child.relationship),
                              child.relationship>> >>
                    ELSE <<>>
             to2 == IF person2 /\ truthy(o.rel2)
                    THEN << <<1, child_index,
                              get_parent_relationship_from_child(
                                  o.rel2, child.relationship),
                              child.relationship>> >>
                    ELSE <<>>
         IN  to1 \o to2
                 \o parent_child_edges_st(o, person2, vc, first_child_index, i + 1)

\* "Sibling relationships": for i in range(len), for j in range(i + 1, len)
RECURSIVE sibling_edges_st(_, _, _, _)
sibling_edges_st(vc, first_child_index, i, j) ==
    IF i > Len(vc) THEN <<>>
    ELSE IF j > Len(vc) THEN sibling_edges_st(vc, first_child_index, i + 1, i + 2)
    ELSE LET sr == get_sibling_relationship(vc[i].relationship,
                                            vc[j].relationship)
         IN  << <<first_child_index + (i - 1), first_child_index + (j - 1),
                  sr[1], sr[2]>> >>
                 \o sibling_edges_st(vc, first_child_index, i, j + 1)

\* "Build relationships": all_relationships
all_relationships_st(f) ==
    LET o == ordered_people_st(f)
        person2 == has_person2_st(f)
        vc == valid_children_st(f)
        first_child_index == IF person2 THEN 2 ELSE 1
        adults == IF person2 /\ truthy(o.rel1) /\ truthy(o.rel2)
                     /\ o.rel1 \in {"husband", "wife"}
                     /\ o.rel2 \in {"husband", "wife"}
                  THEN << <<0, 1, o.rel1, o.rel2>> >>
                  ELSE <<>>
    IN  adults \o parent_child_edges_st(o, person2, vc, first_child_index, 1)
               \o sibling_edges_st(vc, first_child_index, 1, 2)

\* the "Create Household" button is enabled (has_required_data) in a run
\* that has shown the preview
has_required_data_st(f) ==
    /\ has_person1_st(f)
    /\ (has_person2_st(f) \/ Len(f.children) > 0)
    /\ (has_person2_st(f) \/ Len(valid_children_st(f)) > 0)

\* ---- src/app.py ----
present_app(first, last) == truthy(strip(first)) /\ truthy(strip(last))

valid_child_app(child) == present_app(child.first_name, child.last_name)

RECURSIVE children_data_app(_, _)
children_data_app(children, i) ==
    IF i > Len(children) THEN <<>>
    ELSE (IF valid_child_app(children[i])
          THEN <<search_constituents(strip(children[i].first_name),
                                     strip(children[i].last_name))>>
          ELSE <<>>)
         \o children_data_app(children, i + 1)

\* "Collect all people data"
people_data_app(f) ==
    (IF present_app(f.first1, f.last1)
     THEN <<search_constituents(strip(f.first1), strip(f.last1))>> ELSE <<>>)
    \o (IF present_app(f.first2, f.last2)
        THEN <<search_constituents(strip(f.first2), strip(f.last2))>> ELSE <<>>)
    \o children_data_app(f.children, 1)

\* "Generate household names" (never passes the children argument)
household_names_app(f) ==
    LET people_data == people_data_app(f)
    IN  IF Len(people_data) = 1
        THEN format_household_names_with_relationship_app(
                 people_data[1].FirstName, people_data[1].LastName, "", "",
                 f.rel1, "", <<>>)
        ELSE format_household_names_with_relationship_app(
                 people_data[1].FirstName, people_data[1].LastName,
                 people_data[2].FirstName, people_data[2].LastName,
                 f.rel1, f.rel2, <<>>)

\* the inner loop "for sibling_idx in range(2, child_idx)"
RECURSIVE sibling_edges_app(_, _, _)
sibling_edges_app(f, child_idx, sibling_idx) ==
    IF sibling_idx >= child_idx THEN <<>>
    ELSE LET child_rel == f.children[child_idx - 2 + 1].relationship
             sibling_rel == f.children[sibling_idx - 2 + 1].relationship
             child_sibling_rel == IF child_rel = "daughter" THEN "sister"
                                  ELSE "brother"
             sibling_to_child_rel == IF sibling_rel = "daughter" THEN "sister"
                                     ELSE "brother"
         IN  << <<sibling_idx, child_idx, sibling_to_child_rel,
                  child_sibling_rel>> >>
                 \o sibling_edges_app(f, child_idx, sibling_idx + 1)

\* the loop "for child_idx in range(2, len(people_data))"
RECURSIVE children_edges_app(_, _, _)
children_edges_app(f, n_people, child_idx) ==
    IF child_idx >= n_people THEN <<>>
    ELSE LET child_rel == f.children[child_idx - 2 + 1].relationship
             to1 == IF truthy(f.rel1)
                    THEN << <<0, child_idx,
                              IF f.rel1 \in {"father", "husband"}
                              THEN "father" ELSE "mother",
                              child_rel>> >>
                    ELSE <<>>
             to2 == IF n_people >= 2 /\ truthy(f.rel2)
                    THEN << <<1, child_idx,
                              IF f.rel2 \in {"father", "husband"}
                              THEN "father" ELSE "mother",
                              child_rel>> >>
                    ELSE <<>>
         IN  to1 \o to2 \o sibling_edges_app(f, child_idx, 2)
                 \o children_edges_app(f, n_people, child_idx + 1)

\* "Generate relationships"
relationships_app(f) ==
    LET n_people == Len(people_data_app(f))
        adults == IF n_people >= 2 /\ truthy(f.rel1) /\ truthy(f.rel2)
                  THEN << <<0, 1, f.rel1, f.rel2>> >>
                  ELSE <<>>
    IN  adults \o children_edges_app(f, n_people, 2)

\* ---- both versions ----
\* create_household_with_children after the household POST has succeeded:
\* the edges handed to create_relationship are those whose two people have
\* an Id; create_relationship POSTs those whose roles are both in
\* RELATIONSHIP_ROLES
submitted_edges_mut(people_data, relationships) ==
    SelectSeq(relationships, LAMBDA e : people_data[e[1] + 1].Id # 0)

submitted_edges(people_data, relationships) ==
    SelectSeq(relationships,
              LAMBDA e : people_data[e[1] + 1].Id # 0 /\ people_data[e[2] + 1].Id # 0)

posted_edges(people_data, relationships) ==
    SelectSeq(submitted_edges(people_data, relationships),
              LAMBDA e : lower(e[3]) \in RELATIONSHIP_ROLES
                         /\ lower(e[4]) \in RELATIONSHIP_ROLES)

\* the answers of the remote service to the relationship POSTs of one run:
\* the POST of the edge at position refused of the submitted list is
\* answered with status 500 (refused = 0: none is), every other with 200
relationship_answer(k, refused) ==
    [raised |-> FALSE, status |-> IF k = refused THEN 500 ELSE 200,
     already_exists |-> FALSE]

\* what create_relationship returns for each submitted edge, in loop order
relationship_outcomes_mut(submitted, refused) ==
    [k \in 1..(IF refused \in 1..Len(submitted) THEN refused
               ELSE Len(submitted)) |->
        create_relationship(submitted[k][3], submitted[k][4],
                            relationship_answer(k, refused))]

relationship_outcomes(submitted, refused) ==
    [k \in 1..Len(submitted) |->
        create_relationship(submitted[k][3], submitted[k][4],
                            relationship_answer(k, refused))]

create_household_with_children(f, people_data, household_names, relationships, post_ok, refused) ==
    LET submitted == IF post_ok THEN submitted_edges(people_data, relationships)
                     ELSE <<>>
        outcomes == relationship_outcomes(submitted, refused)
    IN  [inputs |-> f,
         people_data |-> people_data,
         household_names |-> household_names,
         relationships |-> relationships,
         created |-> post_ok,
         submitted |-> submitted,
         posted |-> IF post_ok THEN posted_edges(people_data, relationships)
                    ELSE <<>>,
         outcomes |-> outcomes,
         successful_relationships |->
             Cardinality({k \in 1..Len(outcomes) : outcomes[k] = "True"})]

(***************************************************************************)
(* Specification of the new-household page: the widget values and the      *)
(* remote directory are drawn in the initial state; the action is one      *)
(* script run with the "Create Household" button pressed.                  *)
(***************************************************************************)
AdultRoles_st == {"", "husband", "father", "mother", "wife"}
AdultRoles_app == {"", "father", "mother", "husband", "wife", "brother", "sister"}

FormChild ==
    [first_name : {"Amy"}, last_name : {"Smith"}, relationship : ChildRoles]
        \cup [first_name : {""}, last_name : {"Smith"}, relationship : {"daughter"}]

FormNames ==
    [first1 : {"John", ""}, last1 : {"Smith"},
     first2 : {"Jane", ""}, last2 : {"Smith", "Doe", ""}]

Forms(v, methods, roles) ==
    {[ver |-> v, search_method |-> m,
      first1 |-> n.first1, last1 |-> n.last1, rel1 |-> r1,
      first2 |-> n.first2, last2 |-> n.last2, rel2 |-> r2,
      children |-> c] :
        m \in methods, n \in FormNames, r1 \in roles, r2 \in roles,
        c \in SeqsUpTo(FormChild, MaxFormChildren)}

\* the form after "Clear the form" of src/app.py
cleared_form_app(f) ==
    [f EXCEPT !.first1 = "", !.last1 = "", !.rel1 = "",
              !.first2 = "", !.last2 = "", !.rel2 = "", !.children = <<>>]

InitHousehold ==
    /\ form \in Forms("app", {"By Name"}, AdultRoles_app)
                  \cup Forms("st", {"By Name", "By Account Number"}, AdultRoles_st)
    /\ known \in {{}, {"John"}, {"John", "Jane", "Amy"}}
    /\ run = <<>>
    /\ FormatIdle
    /\ RolesIdle
    /\ AddIdle
    /\ CacheIdle
    /\ GateIdle

CreateHouseholdApp ==
    /\ form # <<>>
    /\ form.ver = "app"
    /\ Len(people_data_app(form)) >= 1
    /\ \E post_ok \in BOOLEAN, refused \in 0..1 :
          /\ run' = create_household_with_children(
                        form, people_data_app(form), household_names_app(form),
                        relationships_app(form), post_ok, refused)
          /\ form' = IF post_ok THEN cleared_form_app(form) ELSE form
    /\ UNCHANGED <<known, fvars, rvars, avars, cvars, gvars>>

CreateHouseholdSt ==
    /\ form # <<>>
    /\ form.ver = "st"
    /\ has_required_data_st(form)
    /\ \E post_ok \in BOOLEAN, refused \in 0..1 :
          run' = create_household_with_children(
                     form, all_people_data_st(form), household_names_st(form),
                     all_relationships_st(form), post_ok, refused)
    /\ UNCHANGED <<form, known, fvars, rvars, avars, cvars, gvars>>

NextHousehold == CreateHouseholdApp \/ CreateHouseholdSt

SpecHousehold == InitHousehold /\ [][NextHousehold]_vars

\* the role functions and the new-household page together
SpecEngine == (InitRoles \/ InitHousehold) /\ [][NextRoles \/ NextHousehold]_vars

(***************************************************************************)
(* Claims about the edges of a new household                               *)
(***************************************************************************)
\* the number of adults at the head of people_data in the last run
run_adults ==
    IF run.inputs.ver = "st"
    THEN (IF has_person2_st(run.inputs) THEN 2 ELSE 1)
    ELSE (IF present_app(run.inputs.first1, run.inputs.last1) THEN 1 ELSE 0)
         + (IF present_app(run.inputs.first2, run.inputs.last2) THEN 1 ELSE 0)

\* the 0-based indices of the valid children in people_data
run_children == run_adults .. (Len(run.people_data) - 1)

edge_positions == 1 .. Len(run.relationships)

\* C8 for the runs of the versions in vs
GraphSize(vs) ==
    (run # <<>> /\ run.inputs.ver \in vs /\ run_adults >= 1) =>
        LET E == run.relationships
            n == Cardinality(run_children)
            siblings == {k \in edge_positions :
                            E[k][1] \in run_children /\ E[k][2] \in run_children}
            parents == {k \in edge_positions :
                            \/ E[k][1] < run_adults /\ E[k][2] \in run_children
                            \/ E[k][2] < run_adults /\ E[k][1] \in run_children}
            adults == {k \in edge_positions :
                            E[k][1] < run_adults /\ E[k][2] < run_adults}
        IN  /\ Cardinality(siblings) = (n * (n - 1)) \div 2
            /\ \A i, j \in run_children :
                  i < j => Cardinality({k \in siblings :
                                           {E[k][1], E[k][2]} = {i, j}}) = 1
            /\ Cardinality(parents) <= 2 * n
            /\ Cardinality(adults) <= 1

C8_GraphSizeSt == GraphSize({"st"})

\* C9 for the runs of the versions in vs
AdultEdge(vs) ==
    (run # <<>> /\ run.inputs.ver \in vs /\ run_adults = 2) =>
        \A k \in edge_positions :
            {run.relationships[k][1], run.relationships[k][2]} = {0, 1} =>
                /\ run.inputs.rel1 \in {"husband", "wife"}
                /\ run.inputs.rel2 \in {"husband", "wife"}

\* C9: an edge between adult 0 and adult 1 of a new household is emitted
\* only if both adults' declared roles are in {husband, wife}.
C9_AdultEdgeOnlySpouses == AdultEdge({"app", "st"})

\* C9 restricted to src/streamlit_app.py, where it holds
C9_AdultEdgeOnlySpousesSt == AdultEdge({"st"})

\* the role vocabulary and the categories of the data model
Vocabulary ==
    {"husband", "wife", "father", "mother", "mom", "dad", "brother", "sister",
     "son", "daughter", "partner", "spouse"}

Category(role) ==
    CASE role \in {"husband", "wife", "partner", "spouse"} -> "Spouse"
      [] role \in {"father", "mother", "mom", "dad"} -> "Parent"
      [] role \in {"son", "daughter"} -> "Child"
      [] role \in {"brother", "sister"} -> "Sibling"
      [] OTHER -> "Unknown"

ConsistentEdge(role1, role2) ==
    /\ role1 \in Vocabulary
    /\ role2 \in Vocabulary
    /\ \/ {Category(role1), Category(role2)} = {"Parent", "Child"}
       \/ {Category(role1), Category(role2)} = {"Spouse"}
       \/ {Category(role1), Category(role2)} = {"Sibling"}

\* C10: every edge emitted by the new-household builder, by
\* get_sibling_relationship and by get_relationship_pair carries two roles
\* of the vocabulary whose categories are Parent with Child, Spouse with
\* Spouse or Sibling with Sibling.
C10_EdgeCategories ==
    /\ run # <<>> =>
          \A k \in edge_positions :
              ConsistentEdge(run.relationships[k][3], run.relationships[k][4])
    /\ sib # <<>> => ConsistentEdge(sib[1], sib[2])
    /\ pair # <<>> => ConsistentEdge(pair[1], pair[2])

\* the part of C10 that holds: the builder of src/streamlit_app.py,
\* get_sibling_relationship on two child roles and get_relationship_pair
\* for a member role among father, mother, brother, sister, daughter, son
C10_EdgeCategoriesKnownRoles ==
    /\ (run # <<>> /\ run.inputs.ver = "st") =>
          \A k \in edge_positions :
              ConsistentEdge(run.relationships[k][3], run.relationships[k][4])
    /\ (sib # <<>> /\ lower(rargs.r1) \in {"daughter", "son"}
           /\ lower(rargs.r2) \in {"daughter", "son"}) =>
          ConsistentEdge(sib[1], sib[2])
    /\ (pair # <<>> /\ lower(rargs.r1) \in {"father", "mother", "brother",
                                             "sister", "daughter", "son"}) =>
          ConsistentEdge(pair[1], pair[2])

(***************************************************************************)
(* add_to_existing_household_interface                                     *)
(*                                                                         *)
(* sess is the session state of the page: ver, existing_person and         *)
(* new_person_data (an Id, 0 for None), household_members (the members'    *)
(* Ids in list order) and member_roles (a dict, here a function).          *)
(* on_file[m] is the list the remote service returns for                   *)
(* /constituent/{m}/relationships, each entry a record                     *)
(* [AccountId1, AccountId2, Role1, Role2].                                 *)
(***************************************************************************)
None == ""

\* get_existing_relationships: the list on file, or [] when the request
\* fails or is not answered with status 200
get_existing_relationships(person_id, answered) ==
    IF answered THEN on_file[person_id] ELSE <<>>

\* the role the member holds in one relationship, None when the
\* relationship is not one of the member's ("continue")
own_role(rel, member_id) ==
    IF rel.AccountId1 = member_id THEN lower(rel.Role1)
    ELSE IF rel.AccountId2 = member_id THEN lower(rel.Role2)
    ELSE None

\* the loop of get_parent_role_from_existing_relationships from entry i
RECURSIVE first_parent_role(_, _, _)
first_parent_role(relationships, member_id, i) ==
    IF i > Len(relationships) THEN None
    ELSE IF own_role(relationships[i], member_id) \in {"mother", "father"}
    THEN own_role(relationships[i], member_id)
    ELSE first_parent_role(relationships, member_id, i + 1)

get_parent_role_from_existing_relationships(member_id, answered) ==
    first_parent_role(get_existing_relationships(member_id, answered), member_id, 1)

\* "Determine dropdown options based on existing relationships"
member_role_options(member_id, answered) ==
    LET relationships == get_existing_relationships(member_id, answered)
        roles == {own_role(relationships[i], member_id) :
                     i \in 1..Len(relationships)}
        is_parent == roles \cap {"mother", "father"} # {}
        is_sibling == roles \cap {"brother", "sister", "son", "daughter"} # {}
    IN  IF is_parent THEN {"father", "mother"}
        ELSE IF is_sibling THEN {"brother", "sister"}
        ELSE {"father", "mother", "brother", "sister"}

\* the value the preview stores in member_roles[member_id]: the role
\* detected from the existing relationships, else the role selected in
\* the member's selectbox
render_member_role_mut(existing_role, selected_role) == selected_role

render_member_role(existing_role, selected_role) ==
    IF existing_role # None THEN existing_role ELSE selected_role

\* member_roles.get(member_id, 'father')
member_role_of(member_roles, member_id) ==
    IF member_id \in DOMAIN member_roles THEN member_roles[member_id]
    ELSE "father"

\* "Recalculate relationship pairs for execution" and "Create each
\* individual relationship": the calls of create_relationship, in order
child_relationship_calls_mut(household_members, member_roles, new_id, new_relationship) ==
    [i \in 1..(Len(household_members) - 1) |->
        LET member_id == household_members[i + 1]
            rp == get_relationship_pair(member_role_of(member_roles, member_id),
                                        new_relationship)
        IN  <<member_id, new_id, rp[1], rp[2]>>]

child_relationship_calls(household_members, member_roles, new_id, new_relationship) ==
    [i \in 1..Len(household_members) |->
        LET member_id == household_members[i]
            rp == get_relationship_pair(member_role_of(member_roles, member_id),
                                        new_relationship)
        IN  <<member_id, new_id, rp[1], rp[2]>>]

\* "Clear the session state to start fresh"
cleared_session(se) ==
    [se EXCEPT !.existing_person = 0, !.existing_household = 0,
               !.household_members = <<>>, !.new_person_data = 0]

\* the names of the existing person and of the new person on the page
ExistingName == [FirstName |-> "John", LastName |-> "Smith"]
NewName == [FirstName |-> "Jane", LastName |-> "Doe"]

spouse_household_names(ver, existing_rel, new_relationship) ==
    IF ver = "app"
    THEN format_household_names_with_relationship_app(
             ExistingName.FirstName, ExistingName.LastName,
             NewName.FirstName, NewName.LastName,
             existing_rel, new_relationship, <<>>)
    ELSE format_household_names_with_relationship_st(
             ExistingName.FirstName, ExistingName.LastName,
             NewName.FirstName, NewName.LastName,
             existing_rel, new_relationship, <<>>)

(***************************************************************************)
(* Specification of the add-to-household page: the household, the          *)
(* relationships on file and the roles left in the session by earlier      *)
(* selections are drawn in the initial state; each action is one script    *)
(* run for one addition type, with or without the "Add to Household"       *)
(* button pressed.                                                         *)
(***************************************************************************)
(* Specification of the add-to-household page.  The household and the      *)
(* relationships on file are drawn in the initial state, with both people  *)
(* found and no role stored yet.  Each action is one script run for one    *)
(* addition type; success says that "Add to Household" was pressed in the  *)
(* run and add_member_to_household returned True.  add_run records the     *)
(* last run and the calls of create_relationship it made; for a run that   *)
(* added a child, detection records for each member whether the request    *)
(* for the member's relationships was answered and the role the session    *)
(* held for the member before the run (None if it held none).              *)
(***************************************************************************)
MemberIds == 1..MaxMembers
NewPersonId == MaxMembers + 1
OtherId == MaxMembers + 2

\* relationship lists the remote service may hold for member m
OnFileLists(m) ==
    { <<>>,
      <<[AccountId1 |-> m, AccountId2 |-> OtherId,
         Role1 |-> "Father", Role2 |-> "son"]>>,
      <<[AccountId1 |-> m, AccountId2 |-> OtherId,
         Role1 |-> "brother", Role2 |-> "sister"]>>,
      <<[AccountId1 |-> NewPersonId, AccountId2 |-> OtherId,
         Role1 |-> "father", Role2 |-> "son"],
        [AccountId1 |-> OtherId, AccountId2 |-> m,
         Role1 |-> "son", Role2 |-> "mother"]>> }

Range(q) == {q[i] : i \in 1..Len(q)}

InitAdd ==
    /\ \E n \in MemberIds :
          /\ on_file \in {g \in [1..n -> UNION {OnFileLists(m) : m \in 1..n}] :
                             \A m \in 1..n : g[m] \in OnFileLists(m)}
          /\ sess = [existing_person |-> 1,
                     existing_household |-> 1,
                     household_members |-> [i \in 1..n |-> i],
                     new_person_data |-> NewPersonId,
                     member_roles |-> [m \in {} |-> None]]
    /\ add_run = <<>>
    /\ FormatIdle
    /\ RolesIdle
    /\ HouseholdIdle
    /\ CacheIdle
    /\ GateIdle

\* a preview is shown when both people are in the session
AddPreview ==
    /\ sess # <<>>
    /\ sess.existing_person # 0
    /\ sess.new_person_data # 0

\* addition type "Child to Parents".  answered[m] is the outcome of the
\* request made for detection, answered_again[m] that of the request made
\* for the options of the member's selectbox.
AddChildToParents ==
    /\ AddPreview
    /\ LET members == Range(sess.household_members)
       IN  \E new_relationship \in {"daughter", "son"},
              answered \in [members -> BOOLEAN],
              answered_again \in [members -> BOOLEAN],
              selected \in [members -> {"mother", "brother"}],
              success \in BOOLEAN :
            LET detected ==
                    [m \in members |->
                        get_parent_role_from_existing_relationships(m, answered[m])]
                member_roles ==
                    [m \in members \cup DOMAIN sess.member_roles |->
                        IF m \in members
                        THEN render_member_role(detected[m], selected[m])
                        ELSE sess.member_roles[m]]
            IN  /\ \A m \in members :
                      IF detected[m] # None
                      THEN answered_again[m] /\ selected[m] = "mother"
                      ELSE selected[m] \in member_role_options(m, answered_again[m])
                /\ add_run' =
                      [addition_type |-> "Child to Parents",
                       new_relationship |-> new_relationship,
                       household_members |-> sess.household_members,
                       detection |->
                           IF success
                           THEN [m \in members |->
                                    [answered |-> answered[m],
                                     stored |->
                                         IF m \in DOMAIN sess.member_roles
                                         THEN sess.member_roles[m] ELSE None]]
                           ELSE <<>>,
                       success |-> success,
                       household_names |-> <<>>,
                       calls |-> IF success
                                 THEN child_relationship_calls(
                                          sess.household_members, member_roles,
                                          sess.new_person_data, new_relationship)
                                 ELSE <<>>,
                       wrote |->
                           <<"add_member_to_household">>
                              \o (IF success
                                  THEN [i \in 1..Len(sess.household_members) |->
                                           "create_relationship"]
                                  ELSE <<>>)]
                /\ sess' = IF success
                           THEN cleared_session(
                                    [sess EXCEPT !.member_roles = member_roles])
                           ELSE [sess EXCEPT !.member_roles = member_roles]
    /\ UNCHANGED <<on_file, fvars, rvars, hvars, cvars, gvars>>

\* addition type "Spouse to Single Person"; names_ok is the result of
\* update_household_names
AddSpouse(ver) ==
    /\ AddPreview
    /\ \E new_relationship \in {"husband", "wife"},
          success \in BOOLEAN, names_ok \in BOOLEAN :
        LET existing_rel == IF new_relationship = "husband" THEN "wife"
                            ELSE "husband"
            updated == success /\ names_ok
        IN  /\ success \/ ~names_ok
            /\ add_run' =
                  [addition_type |-> "Spouse to Single Person",
                   new_relationship |-> new_relationship,
                   household_members |-> sess.household_members,
                   detection |-> <<>>,
                   success |-> success,
                   household_names |->
                       IF updated
                       THEN spouse_household_names(ver, existing_rel,
                                                   new_relationship)
                       ELSE <<>>,
                   calls |-> IF updated
                             THEN << <<sess.existing_person, sess.new_person_data,
                                       existing_rel, new_relationship>> >>
                             ELSE <<>>,
                   wrote |->
                       <<"add_member_to_household">>
                          \o (IF success THEN <<"update_household_names">>
                              ELSE <<>>)
                          \o (IF updated THEN <<"create_relationship">>
                              ELSE <<>>)]
            /\ sess' = IF success THEN cleared_session(sess) ELSE sess
    /\ UNCHANGED <<on_file, fvars, rvars, hvars, cvars, gvars>>

AddSpouseApp == AddSpouse("app")

AddSpouseSt == AddSpouse("st")

\* addition type "Other Family Member": the button has no branch for it
AddOther_mut ==
    /\ AddPreview
    /\ \E new_relationship \in {"mother", "sister", "husband"},
          success \in BOOLEAN :
        /\ add_run' =
              [addition_type |-> "Other Family Member",
               new_relationship |-> new_relationship,
               household_members |-> sess.household_members,
               detection |-> <<>>,
               success |-> success,
               household_names |-> <<>>,
               calls |-> <<>>,
               wrote |-> <<"add_member_to_household">>]
        /\ sess' = IF success THEN cleared_session(sess) ELSE sess
    /\ UNCHANGED <<on_file, fvars, rvars, hvars, cvars, gvars>>

AddOther ==
    /\ AddPreview
    /\ \E new_relationship \in {"mother", "sister", "husband"} :
        add_run' =
            [addition_type |-> "Other Family Member",
             new_relationship |-> new_relationship,
             household_members |-> sess.household_members,
             detection |-> <<>>,
             success |-> FALSE,
             household_names |-> <<>>,
             calls |-> <<>>,
             wrote |-> <<>>]
    /\ UNCHANGED <<sess, on_file, fvars, rvars, hvars, cvars, gvars>>

NextAdd == AddChildToParents \/ AddSpouseApp \/ AddSpouseSt \/ AddOther

SpecAdd == InitAdd /\ [][NextAdd]_vars

(***************************************************************************)
(* Claims about adding a person to an existing household                   *)
(***************************************************************************)
\* the parent role a member holds on file: the member's own role in the
\* first relationship in which that role is father or mother
RecordedParentRole(m) ==
    LET own == [i \in 1..Len(on_file[m]) |->
                   IF on_file[m][i].AccountId1 = m THEN lower(on_file[m][i].Role1)
                   ELSE IF on_file[m][i].AccountId2 = m
                   THEN lower(on_file[m][i].Role2)
                   ELSE None]
        hits == {i \in 1..Len(on_file[m]) : own[i] \in {"father", "mother"}}
    IN  IF hits = {} THEN None
        ELSE own[CHOOSE i \in hits : \A k \in hits : i <= k]

two_adults_entered ==
    /\ run # <<>>
    /\ truthy(strip(run.inputs.first1)) /\ truthy(strip(run.inputs.last1))
    /\ truthy(strip(run.inputs.first2)) /\ truthy(strip(run.inputs.last2))

\* the roles call for a swap: role2 is head-eligible and role1 is not
swap_called_for ==
    should_be_first(run.inputs.rel2) /\ ~should_be_first(run.inputs.rel1)

\* the head (index 0) and the second member (index 1) sent for creation are
\* person 2 and person 1 of the form if swapped, person 1 and person 2 if not
members_in_order(swapped) ==
    /\ Len(run.people_data) >= 2
    /\ run.people_data[1].FirstName =
           IF swapped THEN run.inputs.first2 ELSE run.inputs.first1
    /\ run.people_data[2].FirstName =
           IF swapped THEN run.inputs.first1 ELSE run.inputs.first2

\* C11: two adults are swapped exactly when role2 is head-eligible and
\* role1 is not (a blank role1 included); otherwise the input order is
\* kept; the head is at index 0 of the member list sent for creation.
C11_HeadOrdering ==
    two_adults_entered => members_in_order(swap_called_for)

\* what the code does for C11: src/app.py never swaps; src/streamlit_app.py
\* swaps the member list only when the people are searched by name and
\* both roles are set
C11_HeadOrderingAsBuilt ==
    two_adults_entered =>
        members_in_order(/\ run.inputs.ver = "st"
                         /\ run.inputs.search_method = "By Name"
                         /\ truthy(run.inputs.rel1)
                         /\ swap_called_for)

\* the roles of the adult-adult edge of src/streamlit_app.py follow the
\* swapped order in either search method
C11_StAdultEdgeRoles ==
    (two_adults_entered /\ run.inputs.ver = "st") =>
        \A k \in edge_positions :
            (run.relationships[k][1] = 0 /\ run.relationships[k][2] = 1) =>
                run.relationships[k][3] =
                    IF swap_called_for THEN run.inputs.rel2 ELSE run.inputs.rel1

(***************************************************************************)
(* Claims about a second adult entered without a name                      *)
(***************************************************************************)
\* the form with no second adult at all
without_second_adult(f) ==
    [f EXCEPT !.first2 = "", !.last2 = "", !.rel2 = ""]

\* the last run had a second adult with a role but a blank first or last
\* name
nameless_second_adult ==
    /\ run # <<>>
    /\ truthy(run.inputs.rel2)
    /\ ~(truthy(strip(run.inputs.first2)) /\ truthy(strip(run.inputs.last2)))

\* the names and the edges of the last run are those of the same form
\* with no second adult
as_without_second_adult ==
    IF run.inputs.ver = "app"
    THEN /\ run.household_names =
                household_names_app(without_second_adult(run.inputs))
         /\ run.relationships =
                relationships_app(without_second_adult(run.inputs))
    ELSE /\ run.household_names =
                household_names_st(without_second_adult(run.inputs))
         /\ run.relationships =
                all_relationships_st(without_second_adult(run.inputs))

C12_NamelessAdultAbsentAsBuilt ==
    (nameless_second_adult
        /\ (run.inputs.ver = "st" \/ Len(run.people_data) = 1)) =>
        as_without_second_adult

(***************************************************************************)
(* Claims about the edges made when a person joins a household             *)
(***************************************************************************)
\* the last run added a child to the household
child_added ==
    /\ add_run # <<>>
    /\ add_run.addition_type = "Child to Parents"
    /\ add_run.success

\* one edge per member, in member order, each from the member to the
\* incoming person with the roles get_relationship_pair gives for the
\* member's role in the session and the incoming role
one_edge_per_member ==
    /\ Len(add_run.calls) = Len(add_run.household_members)
    /\ \A i \in 1..Len(add_run.household_members) :
          LET m == add_run.household_members[i]
              rp == get_relationship_pair(sess.member_roles[m],
                                          add_run.new_relationship)
          IN  add_run.calls[i] = <<m, NewPersonId, rp[1], rp[2]>>

C14_AlreadyExistsIsSuccess ==
    (rel_call # <<>> /\ rel_call.posted) =>
        /\ rel_call.result \in {"True", "False"}
        /\ rel_call.answer.already_exists => rel_call.result = "True"
        /\ (rel_call.answer.raised
               \/ (rel_call.answer.status \notin {200, 201}
                      /\ ~rel_call.answer.already_exists)) => rel_call.result = "False"

\* what create_relationship does: it returns True exactly when both roles
\* are known and the POST is answered with status 200, 201 or 400,
\* whatever the reason of the 400; it never raises
C14_AsBuilt ==
    rel_call # <<>> =>
        /\ rel_call.result \in {"True", "False"}
        /\ rel_call.result = "True" <=>
              /\ rel_call.posted
              /\ ~rel_call.answer.raised
              /\ rel_call.answer.status \in {200, 201, 400}

(***************************************************************************)
(* Claims about the parent-child edges of a new household                  *)
(***************************************************************************)
\* the role declared in the form for the adult at index a of people_data
declared_adult_role(a) ==
    IF run.people_data[a + 1].FirstName = strip(run.inputs.first1)
    THEN run.inputs.rel1 ELSE run.inputs.rel2

\* the valid children of the form, in order
declared_children ==
    SelectSeq(run.inputs.children, valid_child_app)

\* the role declared for the child at index c of people_data
declared_child_role(c) == declared_children[c - run_adults + 1].relationship

normalized_parent_role(role) ==
    IF lower(role) \in {"husband", "father", "dad"} THEN "father"
    ELSE IF lower(role) \in {"wife", "mother", "mom"} THEN "mother"
    ELSE "neither"

\* C15 for the runs that satisfy scope
ParentChildEdges(scope) ==
    (run # <<>> /\ run_adults >= 1 /\ scope) =>
        \A c \in run_children : \A a \in 0..(run_adults - 1) :
            truthy(declared_adult_role(a)) =>
                LET es == {k \in edge_positions :
                              run.relationships[k][1] = a
                              /\ run.relationships[k][2] = c}
                IN  /\ Cardinality(es) = 1
                    /\ \A k \in es :
                          /\ run.relationships[k][4] = declared_child_role(c)
                          /\ run.relationships[k][3] \in {"father", "mother"}
                          /\ run.relationships[k][3] =
                                 normalized_parent_role(declared_adult_role(a))

C15_ParentChildEdgesSt ==
    ParentChildEdges(/\ run.inputs.ver = "st"
                     /\ \/ run.inputs.search_method = "By Name"
                        \/ ~(run_adults = 2 /\ truthy(run.inputs.rel1)
                               /\ swap_called_for))

(***************************************************************************)
(* Claims about get_relationship_pair.  The function lower-cases both      *)
(* roles first; the rows are read on the lower-cased roles.                *)
(***************************************************************************)
member_role_given == lower(rargs.r1)
incoming_role_given == lower(rargs.r2)

\* C16: for a member who is father or mother, get_relationship_pair
\* returns (member, incoming) for an incoming daughter or son, (member,
\* daughter) for an incoming sister, (member, son) for an incoming brother,
\* and for any other incoming role (mother, daughter) or (father, son).
C16_ParentRows ==
    (pair # <<>> /\ member_role_given \in {"father", "mother"}) =>
        pair = CASE incoming_role_given \in {"daughter", "son"} ->
                        <<member_role_given, incoming_role_given>>
                 [] incoming_role_given = "sister" -> <<member_role_given, "daughter">>
                 [] incoming_role_given = "brother" -> <<member_role_given, "son">>
                 [] OTHER -> IF member_role_given = "mother"
                             THEN <<"mother", "daughter">>
                             ELSE <<"father", "son">>

\* C16 witness: a father member and an incoming sister gave (father, daughter)
C16_Witness ==
    /\ pair = <<"father", "daughter">>
    /\ rargs.r1 = "father" /\ rargs.r2 = "sister"

\* C17: for a member who is brother or sister, the member's role is
\* returned unchanged; the incoming role is sister for an incoming
\* daughter and brother for an incoming son, unchanged for an incoming
\* brother or sister, and otherwise the opposite sibling role of the
\* member.
C17_SiblingRows ==
    (pair # <<>> /\ member_role_given \in {"brother", "sister"}) =>
        /\ pair[1] = member_role_given
        /\ pair[2] = CASE incoming_role_given = "daughter" -> "sister"
                       [] incoming_role_given = "son" -> "brother"
                       [] incoming_role_given \in {"brother", "sister"} ->
                              incoming_role_given
                       [] OTHER -> IF member_role_given = "brother"
                                   THEN "sister" ELSE "brother"

\* C17 witness: a brother member and an incoming son gave (brother, brother)
C17_Witness ==
    /\ pair = <<"brother", "brother">>
    /\ rargs.r1 = "brother" /\ rargs.r2 = "son"

\* C18: for a member who is daughter or son, an incoming father or mother
\* leaves both roles unchanged; an incoming daughter or son turns both
\* into sibling roles, each from that person's own role; an incoming
\* brother or sister turns the member's role into sister or brother from
\* its own role and leaves the incoming role unchanged.
C18_ChildRows ==
    (pair # <<>> /\ member_role_given \in {"daughter", "son"}) =>
        LET as_sibling(r) == IF r = "daughter" THEN "sister" ELSE "brother"
        IN  /\ incoming_role_given \in {"father", "mother"} =>
                  pair = <<member_role_given, incoming_role_given>>
            /\ incoming_role_given \in {"daughter", "son"} =>
                  pair = <<as_sibling(member_role_given),
                           as_sibling(incoming_role_given)>>
            /\ incoming_role_given \in {"brother", "sister"} =>
                  pair = <<as_sibling(member_role_given), incoming_role_given>>

\* C18 witness: a son member and an incoming daughter gave (brother, sister)
C18_Witness ==
    /\ pair = <<"brother", "sister">>
    /\ rargs.r1 = "son" /\ rargs.r2 = "daughter"

\* the pairs covered by a Parent, Sibling or Child row of the table
covered_by_a_row ==
    \/ member_role_given \in {"father", "mother", "brother", "sister"}
    \/ /\ member_role_given \in {"daughter", "son"}
       /\ incoming_role_given \in {"father", "mother", "daughter", "son",
                                   "brother", "sister"}

\* C19 (as amended): when the member's role is none of father, mother,
\* brother, sister, daughter, son, get_relationship_pair returns both
\* roles lower-cased and otherwise unchanged; for a daughter or son member
\* with an incoming role that is none of those six it returns the
\* member's sibling role and the opposite sibling role.
C19_Fallback ==
    (pair # <<>> /\ ~covered_by_a_row) =>
        IF member_role_given \in {"daughter", "son"}
        THEN pair = IF member_role_given = "daughter"
                    THEN <<"sister", "brother">> ELSE <<"brother", "sister">>
        ELSE pair = <<member_role_given, incoming_role_given>>

\* C19 witness: a husband member written "Husband" and an incoming
\* daughter gave (husband, daughter)
C19_Witness ==
    /\ pair = <<"husband", "daughter">>
    /\ rargs.r1 = "Husband" /\ rargs.r2 = "daughter"

\* C19 as stated: every pair not covered by a row comes back unchanged
\* apart from lower-casing.
C19_Original ==
    (pair # <<>> /\ ~covered_by_a_row) =>
        pair = <<member_role_given, incoming_role_given>>

(***************************************************************************)
(* Claims about the names of unmarried parents                             *)
(***************************************************************************)
\* two adults, both with a parent role, and at least one child
unmarried_parents_with_children ==
    /\ second_present
    /\ lower(fargs.rel1) \in {"father", "mother", "dad", "mom"}
    /\ lower(fargs.rel2) \in {"father", "mother", "dad", "mom"}
    /\ Len(fargs.children) > 0

\* what each version returns for the same names and children with the
\* roles husband and wife
married_names_app ==
    format_household_names_with_relationship_app(
        fargs.first1, fargs.last1, fargs.first2, fargs.last2,
        "husband", "wife", fargs.children)

married_names_st ==
    format_household_names_with_relationship_st(
        fargs.first1, fargs.last1, fargs.first2, fargs.last2,
        "husband", "wife", fargs.children)

\* C20: for two unmarried parents with children every version of the
\* formatter returns, in all six fields, the strings it returns for the
\* same names with the roles husband and wife.
C20_UnmarriedAsMarried ==
    unmarried_parents_with_children =>
        /\ "app" \in fdone => names_app = married_names_app
        /\ "st" \in fdone => names_st = married_names_st

\* C20 for src/app.py alone, where it holds
C20_UnmarriedAsMarriedApp ==
    (unmarried_parents_with_children /\ "app" \in fdone) =>
        names_app = married_names_app

(***************************************************************************)
(* Claims about two sibling adults without children                        *)
(***************************************************************************)
sibling_adults_no_children ==
    /\ second_present
    /\ lower(fargs.rel1) \in {"brother", "sister"}
    /\ lower(fargs.rel2) \in {"brother", "sister"}
    /\ Len(fargs.children) = 0

sibling_title(role) == IF lower(role) = "brother" THEN "Mr." ELSE "Ms."

same_surname == lower(fargs.last1) = lower(fargs.last2)

\* the FullName the two-sibling case is to have
C21_FullName ==
    IF same_surname
    THEN "The " \o fargs.last1 \o " Family"
    ELSE "The " \o fargs.last1 \o "/" \o fargs.last2 \o " Family"

\* the ways of listing both persons with their own titles
C21_TitledListings ==
    LET t1 == sibling_title(fargs.rel1)
        t2 == sibling_title(fargs.rel2)
    IN  { t1 \o " " \o fargs.first1 \o " and " \o t2 \o " " \o fargs.first2
             \o " " \o fargs.last1,
          t1 \o " " \o fargs.first1 \o " " \o fargs.last1 \o " and " \o t2
             \o " " \o fargs.first2 \o " " \o fargs.last2,
          t1 \o " " \o fargs.last1 \o " and " \o t2 \o " " \o fargs.last2 }

\* C21: for two adults with sibling roles (brother or sister each) and no
\* children, the formatter titles a brother "Mr." and a sister "Ms.", lists
\* both persons with their own titles in FormalName, and sets FullName to
\* "The {last1} Family" for equal surnames and "The {last1}/{last2} Family"
\* for different ones, in each version of the function.
C21_SiblingAdults ==
    sibling_adults_no_children =>
        /\ "app" \in fdone =>
              /\ names_app.FullName = C21_FullName
              /\ names_app.FormalName \in C21_TitledListings
        /\ "st" \in fdone =>
              /\ names_st.FullName = C21_FullName
              /\ names_st.FormalName \in C21_TitledListings

\* C21 (what each version does): src/app.py titles both siblings by role but
\* names the household by the first surname only, whatever the second
\* surname is; src/streamlit_app.py names the household by one or by both
\* surnames and puts "The ... Siblings", without titles, in FormalName.
C21_SiblingAdultsAsBuilt ==
    sibling_adults_no_children =>
        /\ "app" \in fdone =>
              /\ names_app.FullName = "The " \o fargs.last1 \o " Family"
              /\ names_app.FormalName =
                    sibling_title(fargs.rel1) \o " " \o fargs.first1 \o " and "
                       \o sibling_title(fargs.rel2) \o " " \o fargs.first2
                       \o " " \o fargs.last1
        /\ "st" \in fdone =>
              /\ names_st.FullName = C21_FullName
              /\ names_st.FormalName =
                    IF same_surname
                    THEN "The " \o fargs.last1 \o " Siblings"
                    ELSE "The " \o fargs.last1 \o "/" \o fargs.last2
                            \o " Siblings"

(***************************************************************************)
(* The naming cascade: which case returns                                  *)
(***************************************************************************)
\* src/app.py: the PRIORITY block whose return statement is reached.
\* PRIORITY 2 has no final else, PRIORITY 3 does not test children.
cascade_case_app(first2, last2, rel1, rel2, children) ==
    IF is_single_parent(first2, last2, rel1, children)
    THEN "single_parent"
    ELSE IF Len(children) > 0 /\ truthy(first2) /\ truthy(last2)
            /\ (is_spouse_relationship(rel1, rel2)
                  \/ is_unmarried_parents(rel1, rel2))
    THEN "two_adults_with_children"
    ELSE IF truthy(first2) /\ truthy(last2)
    THEN "two_adults_no_children"
    ELSE "fallback"

\* src/streamlit_app.py: the block whose return statement is reached.
cascade_case_st(first2, last2, rel1, rel2, children) ==
    IF is_single_parent(first2, last2, rel1, children)
    THEN "single_parent"
    ELSE IF Len(children) > 0 /\ truthy(first2) /\ truthy(last2)
    THEN "two_adults_with_children"
    ELSE IF truthy(first2) /\ truthy(last2) /\ Len(children) = 0
    THEN "two_adults_no_children"
    ELSE "fallback"

case_app ==
    cascade_case_app(fargs.first2, fargs.last2, fargs.rel1, fargs.rel2,
                     fargs.children)

case_st ==
    cascade_case_st(fargs.first2, fargs.last2, fargs.rel1, fargs.rel2,
                    fargs.children)

\* FormalName of the templates that only the two-adults-no-children case
\* has: siblings and same-surname no-relationship (src/app.py), siblings
\* (src/streamlit_app.py)
no_children_only_formal_app ==
    { sibling_title(fargs.rel1) \o " " \o fargs.first1 \o " and "
         \o sibling_title(fargs.rel2) \o " " \o fargs.first2 \o " "
         \o fargs.last1,
      "Mr. " \o fargs.first1 \o " " \o fargs.last1 \o " and Ms. "
         \o fargs.first2 \o " " \o fargs.last1 }

no_children_only_formal_st ==
    { "The " \o fargs.last1 \o " Siblings",
      "The " \o fargs.last1 \o "/" \o fargs.last2 \o " Siblings" }

\* C22: the cases of the naming cascade are mutually exclusive and the
\* first match wins: with both adults present and at least one child the
\* result comes from the two-adults-with-children case for every pair of
\* roles, and the templates of the two-adults-no-children case (sibling,
\* no-relationship) are returned only when there are no children.
C22_CascadeExclusive ==
    /\ (second_present /\ Len(fargs.children) > 0) =>
          /\ "app" \in fdone => case_app = "two_adults_with_children"
          /\ "st" \in fdone => case_st = "two_adults_with_children"
    /\ ("app" \in fdone /\ second_present
          /\ names_app.FormalName \in no_children_only_formal_app)
          => Len(fargs.children) = 0
    /\ ("st" \in fdone /\ second_present
          /\ names_st.FormalName \in no_children_only_formal_st)
          => Len(fargs.children) = 0

\* C22 (what each version does): src/streamlit_app.py returns inside the
\* two-adults-with-children case for every pair of roles; src/app.py does so
\* only for two spouse roles or two parent roles, and for every other pair
\* goes on to the two-adults-no-children case, children or not.
C22_CascadeExclusiveAsBuilt ==
    /\ (second_present /\ Len(fargs.children) > 0) =>
          /\ "st" \in fdone => case_st = "two_adults_with_children"
          /\ "app" \in fdone =>
                case_app = IF \/ is_spouse_relationship(fargs.rel1, fargs.rel2)
                              \/ is_unmarried_parents(fargs.rel1, fargs.rel2)
                           THEN "two_adults_with_children"
                           ELSE "two_adults_no_children"
    /\ ("st" \in fdone /\ second_present
          /\ names_st.FormalName \in no_children_only_formal_st)
          => Len(fargs.children) = 0
    /\ ("app" \in fdone /\ second_present /\ Len(fargs.children) > 0
          /\ is_sibling_relationship(fargs.rel1, fargs.rel2))
          => names_app.FormalName \in no_children_only_formal_app

(***************************************************************************)
(* Role classification: case and padding of the role arguments             *)
(***************************************************************************)
CallShouldBeFirst ==
    /\ rargs # <<>>
    /\ sbf = <<>>
    /\ sbf' = <<should_be_first(rargs.r1)>>
    /\ UNCHANGED <<rargs, sib, pair, par, rel_call, fvars, hvars, avars, cvars, gvars>>

\* the name formatter and every role function, each applied to its arguments
SpecClassify ==
    (InitFormat \/ InitRoles) /\ [][NextFormat \/ NextRoles \/ CallShouldBeFirst]_vars

\* a role string trimmed and in lower case
canonical(role) == lower(strip(role))

\* C23: role classification is insensitive to letter case and to leading or
\* trailing whitespace: each function returns for its role arguments what
\* it returns for the same roles trimmed and in lower case -- the name set
\* of the formatter (both versions), should_be_first,
\* get_sibling_relationship, get_parent_relationship_from_child and
\* get_relationship_pair.
C23_CaseAndPadding ==
    /\ "app" \in fdone =>
          names_app = format_household_names_with_relationship_app(
                          fargs.first1, fargs.last1, fargs.first2, fargs.last2,
                          canonical(fargs.rel1), canonical(fargs.rel2),
                          fargs.children)
    /\ "st" \in fdone =>
          names_st = format_household_names_with_relationship_st(
                          fargs.first1, fargs.last1, fargs.first2, fargs.last2,
                          canonical(fargs.rel1), canonical(fargs.rel2),
                          fargs.children)
    /\ sbf # <<>> => sbf[1] = should_be_first(canonical(rargs.r1))
    /\ sib # <<>> =>
          sib = get_sibling_relationship(canonical(rargs.r1), canonical(rargs.r2))
    /\ par # <<>> =>
          par[1] = get_parent_relationship_from_child(canonical(rargs.r1),
                                                      canonical(rargs.r2))
    /\ pair # <<>> =>
          pair = get_relationship_pair(canonical(rargs.r1), canonical(rargs.r2))

\* C23 (what the code does): every function reads the roles in lower case,
\* so the letter case of a role changes no result, except that
\* get_parent_relationship_from_child hands back a role that is not a
\* parent or spouse role as it was given; only should_be_first trims.
C23_CaseOnlyAsBuilt ==
    /\ "app" \in fdone =>
          names_app = format_household_names_with_relationship_app(
                          fargs.first1, fargs.last1, fargs.first2, fargs.last2,
                          lower(fargs.rel1), lower(fargs.rel2), fargs.children)
    /\ "st" \in fdone =>
          names_st = format_household_names_with_relationship_st(
                          fargs.first1, fargs.last1, fargs.first2, fargs.last2,
                          lower(fargs.rel1), lower(fargs.rel2), fargs.children)
    /\ sbf # <<>> => sbf[1] = should_be_first(canonical(rargs.r1))
    /\ sib # <<>> =>
          sib = get_sibling_relationship(lower(rargs.r1), lower(rargs.r2))
    /\ par # <<>> =>
          par[1] = IF lower(rargs.r1) \in {"husband", "father", "dad", "wife",
                                           "mother", "mom"}
                   THEN get_parent_relationship_from_child(lower(rargs.r1),
                                                           lower(rargs.r2))
                   ELSE rargs.r1
    /\ pair # <<>> =>
          pair = get_relationship_pair(lower(rargs.r1), lower(rargs.r2))

\* the padded role " Husband " has been classified by every function
C23_PaddedRoleClassified ==
    \/ /\ fargs # <<>>
       /\ fdone = {"app", "st"}
       /\ fargs.rel1 = " Husband " /\ fargs.rel2 = "wife"
       /\ second_present
       /\ names_app.FormalName # "Mr. and Mrs. " \o fargs.last1
    \/ /\ rargs # <<>> /\ rargs.r1 = " Husband "
       /\ sbf = <<TRUE>> /\ par # <<>> /\ par[1] = " Husband "

(***************************************************************************)
(* Households with several children.  The forms have John Smith and Jane   *)
(* Smith (or nobody) as adults, as parents or as spouses, and up to         *)
(* MaxSiblings children rows.                                              *)
(***************************************************************************)
SiblingForms ==
    {[ver |-> vm[1], search_method |-> vm[2],
      first1 |-> "John", last1 |-> "Smith", rel1 |-> roles[1],
      first2 |-> first2, last2 |-> "Smith", rel2 |-> roles[2],
      children |-> c] :
        vm \in {<<"app", "By Name">>, <<"st", "By Name">>,
                <<"st", "By Account Number">>},
        roles \in {<<"father", "mother">>, <<"husband", "wife">>,
                   <<"wife", "husband">>},
        first2 \in {"Jane", ""},
        c \in SeqsUpTo(FormChild, MaxSiblings)}

InitSiblings ==
    /\ form \in SiblingForms
    /\ known \in {{}, {"John"}, {"John", "Jane", "Amy"}}
    /\ run = <<>>
    /\ FormatIdle
    /\ RolesIdle
    /\ AddIdle
    /\ CacheIdle
    /\ GateIdle

SpecSiblings == InitSiblings /\ [][NextHousehold]_vars

\* the pairs (i, j), i < j < n, with i as the outer index
RECURSIVE pairs_i_outer(_, _, _)
pairs_i_outer(n, i, j) ==
    IF i >= n THEN <<>>
    ELSE IF j >= n THEN pairs_i_outer(n, i + 1, i + 2)
    ELSE << <<i, j>> >> \o pairs_i_outer(n, i, j + 1)

\* the pairs (i, j), i < j < n, with j as the outer index
RECURSIVE pairs_j_outer(_, _, _)
pairs_j_outer(n, j, i) ==
    IF j >= n THEN <<>>
    ELSE IF i >= j THEN pairs_j_outer(n, j + 1, 0)
    ELSE << <<i, j>> >> \o pairs_j_outer(n, j, i + 1)

\* the sibling role of the k-th valid child (k counted from 0)
sibling_role_of_child(k) ==
    IF declared_children[k + 1].relationship = "daughter" THEN "sister"
    ELSE "brother"

\* the sibling edges that the pairs, taken in their order, call for
sibling_edges_for(pairs) ==
    [k \in 1..Len(pairs) |->
        <<run_adults + pairs[k][1], run_adults + pairs[k][2],
          sibling_role_of_child(pairs[k][1]),
          sibling_role_of_child(pairs[k][2])>>]

\* the edges of the last run that join two children, in list order
run_sibling_edges ==
    SelectSeq(run.relationships,
              LAMBDA e : e[1] \in run_children /\ e[2] \in run_children)

\* C24 for the runs of the versions in vs
SiblingOrder(vs) ==
    (run # <<>> /\ run.inputs.ver \in vs) =>
        run_sibling_edges =
            sibling_edges_for(pairs_i_outer(Cardinality(run_children), 0, 1))

C24_SiblingOrderSt == SiblingOrder({"st"})

\* C24 (what src/app.py does): with two adults and no blank child row the
\* sibling edges follow the iteration with the later child j as the outer
\* index, (0,1), (0,2), (1,2), (0,3), (1,3), (2,3).
C24_SiblingOrderAppAsBuilt ==
    (run # <<>> /\ run.inputs.ver = "app" /\ run_adults = 2
        /\ Len(declared_children) = Len(run.inputs.children)) =>
        run_sibling_edges =
            sibling_edges_for(pairs_j_outer(Cardinality(run_children), 1, 0))

\* four children: src/app.py has emitted (1,2) before (0,3)
C24_FourChildrenApp ==
    /\ run # <<>> /\ run.inputs.ver = "app" /\ run_adults = 2
    /\ Cardinality(run_children) = 4
    /\ Len(run_sibling_edges) = 6
    /\ run_sibling_edges[3][1] = 3 /\ run_sibling_edges[3][2] = 4
    /\ run_sibling_edges[4][1] = 2 /\ run_sibling_edges[4][2] = 5

(***************************************************************************)
(* Claims about roles without an entry in RELATIONSHIP_ROLES               *)
(***************************************************************************)
\* both roles of the call have an entry, letter case apart
roles_on_record ==
    /\ lower(rel_call.rel1) \in RELATIONSHIP_ROLES
    /\ lower(rel_call.rel2) \in RELATIONSHIP_ROLES

GenericRoles == {"sibling", "spouse", "child"}

\* C25: create_relationship sends no request and returns False whenever one
\* of the two roles has no entry in RELATIONSHIP_ROLES (roles are looked up
\* in lower case); so an edge with the generic role "sibling", "spouse" or
\* "child" is never sent, while an edge whose two roles both have an entry
\* results in one POST.
C25_UnknownRolesNotPosted ==
    rel_call # <<>> =>
        /\ ~roles_on_record => (~rel_call.posted /\ rel_call.result = "False")
        /\ roles_on_record => rel_call.posted
        /\ (rel_call.rel1 \in GenericRoles \/ rel_call.rel2 \in GenericRoles)
              => (~rel_call.posted /\ rel_call.result = "False")

\* C25 witness: the pair (sibling, sibling) that get_sibling_relationship
\* returned for an unknown child role was handed to create_relationship,
\* which made no POST and returned False.
C25_Witness ==
    /\ rel_call # <<>>
    /\ sib = <<"sibling", "sibling">>
    /\ rel_call.rel1 = "sibling" /\ rel_call.rel2 = "sibling"
    /\ ~rel_call.posted
    /\ rel_call.result = "False"
    /\ rel_call.answer.status = 200

(***************************************************************************)
(* Claims about create_household_with_children                             *)
(***************************************************************************)
\* the person at the 0-based index idx of people_data carries an Id
carries_id(idx) == run.people_data[idx + 1].Id # 0

\* the edges of the relationship list whose two endpoints carry an Id
edges_between_known_people ==
    SelectSeq(run.relationships, LAMBDA e : carries_id(e[1]) /\ carries_id(e[2]))

C27_HouseholdFirst ==
    run # <<>> =>
        /\ ~run.created =>
              /\ Len(run.submitted) = 0
              /\ Len(run.outcomes) = 0
              /\ Len(run.posted) = 0
        /\ run.created =>
              /\ run.submitted =
                    SelectSeq(run.relationships,
                              LAMBDA e : \E k \in 1..Len(run.submitted) :
                                            run.submitted[k] = e)
              /\ Len(run.outcomes) = Len(edges_between_known_people)
              /\ \A k \in 1..Len(run.outcomes) :
                    run.outcomes[k] \in {"True", "False"}

\* C27 witness: the household was created, the first relationship was
\* refused by the service and the second one was created after it.
C27_Witness ==
    /\ run # <<>>
    /\ run.created
    /\ Len(run.outcomes) >= 2
    /\ run.outcomes[1] = "False"
    /\ run.outcomes[2] = "True"
    /\ run.submitted[1] = run.relationships[1]
    /\ run.submitted[2] = run.relationships[2]

(***************************************************************************)
(* Claims about the addition type "Other Family Member"                    *)
(***************************************************************************)
\* the keys of the workflow in the session
WorkflowKeys ==
    {"existing_person", "existing_household", "household_members",
     "new_person_data"}

str(n) == [str |-> n]

int(n) == [int |-> n]

CacheHouseholds == {1, 2}

CachePeople == 1..MaxPeople

\* the constituents that can be added to a household: all but the heads
Movable == CachePeople \ CacheHouseholds

EmptyCache == [k \in {} |-> <<>>]

\* dict[key] = value
Put(dict, key, value) ==
    [k \in DOMAIN dict \cup {key} |-> IF k = key THEN value ELSE dict[k]]

\* del dict[key]
Del(dict, key) == [k \in DOMAIN dict \ {key} |-> dict[k]]

\* the elements of a set of numbers in increasing order
RECURSIVE Ascending(_)
Ascending(S) ==
    IF S = {} THEN <<>>
    ELSE LET least == CHOOSE x \in S : \A y \in S : x <= y
         IN  <<least>> \o Ascending(S \ {least})

\* GET /constituent/{id} and GET /household/{id} of the remote service r
remote_constituent(r, id) == [Id |-> id, HouseholdId |-> r[id]]

remote_household(r, id) ==
    [Id |-> id, HeadId |-> id,
     MemberIds |-> Ascending({p \in DOMAIN r : r[p] = id})]

\* get_constituent_by_id: the result and the caches after the call; ok says
\* whether the service answers a GET with status 200
get_constituent_by_id(c, r, constituent_id, ok) ==
    IF constituent_id = 0 THEN [result |-> <<>>, cached |-> c]
    ELSE IF str(constituent_id) \in DOMAIN c.cached_constituents
    THEN [result |-> c.cached_constituents[str(constituent_id)], cached |-> c]
    ELSE IF ok
    THEN [result |-> remote_constituent(r, constituent_id),
          cached |-> [c EXCEPT !.cached_constituents =
                         Put(@, str(constituent_id),
                             remote_constituent(r, constituent_id))]]
    ELSE [result |-> <<>>, cached |-> c]

get_household_by_id(c, r, household_id, ok) ==
    IF household_id = 0 THEN [result |-> <<>>, cached |-> c]
    ELSE IF str(household_id) \in DOMAIN c.cached_households
    THEN [result |-> c.cached_households[str(household_id)], cached |-> c]
    ELSE IF ok
    THEN [result |-> remote_household(r, household_id),
          cached |-> [c EXCEPT !.cached_households =
                         Put(@, str(household_id),
                             remote_household(r, household_id))]]
    ELSE [result |-> <<>>, cached |-> c]

\* the loops of get_household_members: the constituents ids[i..], each
\* fetched with get_constituent_by_id and tagged with role, head_id skipped
RECURSIVE collect_members(_, _, _, _, _, _, _)
collect_members(c, r, ids, i, head_id, role, ok) ==
    IF i > Len(ids) THEN [result |-> <<>>, cached |-> c]
    ELSE IF ids[i] = head_id
    THEN collect_members(c, r, ids, i + 1, head_id, role, ok)
    ELSE LET got == get_constituent_by_id(c, r, ids[i], ok)
             rest == collect_members(got.cached, r, ids, i + 1, head_id, role, ok)
         IN  [result |->
                 (IF got.result # <<>>
                  THEN << [Id |-> got.result.Id,
                           HouseholdId |-> got.result.HouseholdId,
                           _household_role |-> role] >>
                  ELSE <<>>) \o rest.result,
              cached |-> rest.cached]

get_household_members(c, r, household_id, household_ok, constituent_ok) ==
    IF household_id = 0 THEN [result |-> <<>>, cached |-> c]
    ELSE IF str(household_id) \in DOMAIN c.cached_household_members
    THEN [result |-> c.cached_household_members[str(household_id)],
          cached |-> c]
    ELSE LET household == get_household_by_id(c, r, household_id, household_ok)
         IN  IF household.result = <<>>
             THEN [result |-> <<>>, cached |-> household.cached]
             ELSE LET head_id == household.result.HeadId
                      head == collect_members(household.cached, r, <<head_id>>,
                                              1, 0, "Head", constituent_ok)
                      others == collect_members(head.cached, r,
                                                household.result.MemberIds, 1,
                                                head_id, "Member", constituent_ok)
                      members == head.result \o others.result
                  IN  [result |-> members,
                       cached |-> [others.cached EXCEPT
                                      !.cached_household_members =
                                          Put(@, str(household_id), members)]]

\* add_member_to_household: put_ok says whether the PUT is answered with
\* status 200 or 201, and the service then holds the new HouseholdId.  The
\* two `if household_id in ...` tests look the int up among the str keys.
add_member_to_household(c, r, household_id, new_member_id, put_ok, constituent_ok) ==
    IF new_member_id = 0
    THEN [result |-> FALSE, cached |-> c, remote |-> r]
    ELSE IF ~put_ok
    THEN [result |-> FALSE, cached |-> c, remote |-> r]
    ELSE LET r2 == [r EXCEPT ![new_member_id] = household_id]
             c1 == IF int(household_id) \in DOMAIN c.cached_households
                   THEN [c EXCEPT !.cached_households =
                            Del(@, str(household_id))]
                   ELSE c
             c2 == IF int(household_id) \in DOMAIN c1.cached_household_members
                   THEN [c1 EXCEPT !.cached_household_members =
                            Del(@, str(household_id))]
                   ELSE c1
             updated_constituent ==
                 get_constituent_by_id(c2, r2, new_member_id, constituent_ok)
         IN  [result |-> /\ updated_constituent.result # <<>>
                         /\ updated_constituent.result.HouseholdId = household_id,
              cached |-> updated_constituent.cached,
              remote |-> r2]

(***************************************************************************)
(* Specification of the session caches: a session starts with the three    *)
(* caches empty (main) and calls the cached functions in any order.        *)
(***************************************************************************)
InitCache ==
    /\ cached = [cached_constituents |-> EmptyCache,
                 cached_households |-> EmptyCache,
                 cached_household_members |-> EmptyCache]
    /\ remote \in {r \in [CachePeople -> {0} \cup CacheHouseholds] :
                      \A h \in CacheHouseholds : r[h] = h}
    /\ added = {}
    /\ cache_run = <<>>
    /\ FormatIdle
    /\ RolesIdle
    /\ HouseholdIdle
    /\ AddIdle
    /\ GateIdle

CallGetHouseholdById ==
    /\ cached # <<>>
    /\ \E h \in CacheHouseholds, ok \in BOOLEAN :
          LET got == get_household_by_id(cached, remote, h, ok)
          IN  /\ cached' = got.cached
              /\ cache_run' = [op |-> "get_household_by_id", household_id |-> h,
                               new_member_id |-> 0, answered |-> ok,
                               result |-> got.result]
    /\ UNCHANGED <<remote, added, fvars, rvars, hvars, avars, gvars>>

CallGetHouseholdMembers ==
    /\ cached # <<>>
    /\ \E h \in CacheHouseholds, ok \in BOOLEAN :
          LET got == get_household_members(cached, remote, h, ok, ok)
          IN  /\ cached' = got.cached
              /\ cache_run' = [op |-> "get_household_members", household_id |-> h,
                               new_member_id |-> 0, answered |-> ok,
                               result |-> got.result]
    /\ UNCHANGED <<remote, added, fvars, rvars, hvars, avars, gvars>>

CallAddMemberToHousehold ==
    /\ cached # <<>>
    /\ \E h \in CacheHouseholds, p \in Movable, put_ok \in BOOLEAN, ok \in BOOLEAN :
          LET got == add_member_to_household(cached, remote, h, p, put_ok, ok)
          IN  /\ cached' = got.cached
              /\ remote' = got.remote
              /\ added' = IF put_ok
                          THEN {a \in added : a[2] # p} \cup {<<h, p>>}
                          ELSE added
              /\ cache_run' = [op |-> "add_member_to_household",
                               household_id |-> h, new_member_id |-> p,
                               answered |-> put_ok, result |-> got.result]
    /\ UNCHANGED <<fvars, rvars, hvars, avars, gvars>>

NextCache ==
    \/ CallGetHouseholdById
    \/ CallGetHouseholdMembers
    \/ CallAddMemberToHousehold

SpecCache == InitCache /\ [][NextCache]_vars

(***************************************************************************)
(* Claims about the session caches                                         *)
(***************************************************************************)
\* the Ids in a member list
member_ids(members) == {members[i].Id : i \in 1..Len(members)}

\* the last call was add_member_to_household and its PUT got a success status
member_added ==
    /\ cache_run # <<>>
    /\ cache_run.op = "add_member_to_household"
    /\ cache_run.answered

\* C28: after add_member_to_household(h, p) got a success status from the
\* remote update, the entries of h in cached_households and
\* cached_household_members are gone, so that the next get_household_by_id(h)
\* and get_household_members(h) read the remote service and include p; a
\* cached member list never omits a member added successfully in the session.
C28_CacheCoherence ==
    /\ member_added =>
          /\ str(cache_run.household_id) \notin DOMAIN cached.cached_households
          /\ str(cache_run.household_id)
                \notin DOMAIN cached.cached_household_members
    /\ \A a \in added :
          /\ str(a[1]) \in DOMAIN cached.cached_household_members =>
                a[2] \in member_ids(cached.cached_household_members[str(a[1])])
          /\ str(a[1]) \in DOMAIN cached.cached_households =>
                \E i \in 1..Len(cached.cached_households[str(a[1])].MemberIds) :
                    cached.cached_households[str(a[1])].MemberIds[i] = a[2]
    /\ (cache_run # <<>> /\ cache_run.op = "get_household_members"
          /\ cache_run.answered) =>
          \A a \in added :
              a[1] = cache_run.household_id => a[2] \in member_ids(cache_run.result)

\* C28 (what the code does): no call removes or replaces an entry of a
\* cache; an entry, once stored, stays as it is for the rest of the session.
C28_CachesOnlyGrow ==
    [][ cached # <<>> =>
          \A name \in {"cached_constituents", "cached_households",
                       "cached_household_members"} :
              \A key \in DOMAIN cached[name] :
                  /\ key \in DOMAIN cached'[name]
                  /\ cached'[name][key] = cached[name][key] ]_vars

\* the stale list: constituent 3 was added to household 1 with success, and
\* the member list cached for household 1 before is still there, without 3
C28_StaleMemberList ==
    /\ member_added
    /\ cache_run.household_id = 1 /\ cache_run.new_member_id = 3
    /\ cache_run.result
    /\ remote[3] = 1
    /\ str(1) \in DOMAIN cached.cached_household_members
    /\ 3 \notin member_ids(cached.cached_household_members[str(1)])

(***************************************************************************)
(* The password gate of src/streamlit_app.py.  session_state is a function *)
(* on the keys of st.session_state.  A script run starts at the top of the *)
(* file: check_password, st.stop() if it returns False, else the           *)
(* application body (API configuration, logout button, main).  gate_run    *)
(* logs the script runs: the event that started the run, what the run      *)
(* showed, whether the body was entered and whether password_correct was   *)
(* True in the session at that moment.                                     *)
(***************************************************************************)
\* st.text_input(..., key="password"): the widget keeps its value under its key
text_input(ss) ==
    IF "password" \in DOMAIN ss THEN ss ELSE Put(ss, "password", "")

\* the on_change callback of the password widget
password_entered_mut(ss, sec) ==
    IF ss["password"] = sec.app_password
    THEN Put(ss, "password_correct", TRUE)
    ELSE Put(ss, "password_correct", FALSE)

password_entered(ss, sec) ==
    IF ss["password"] = sec.app_password
    THEN Del(Put(ss, "password_correct", TRUE), "password")
    ELSE Put(ss, "password_correct", FALSE)

check_password(ss) ==
    IF "password_correct" \notin DOMAIN ss
    THEN [result |-> FALSE, screen |-> "enter password", session_state |-> text_input(ss)]
    ELSE IF ~ss["password_correct"]
    THEN [result |-> FALSE, screen |-> "incorrect password", session_state |-> text_input(ss)]
    ELSE [result |-> TRUE, screen |-> "", session_state |-> ss]

\* main(): the three caches are created if they are not in the session
main_session(ss) ==
    [k \in DOMAIN ss \cup {"cached_constituents", "cached_households",
                           "cached_household_members"} |->
        IF k \in DOMAIN ss THEN ss[k] ELSE "{}"]

\* one script run; logout says that the run was started by the logout
\* button.  The result is the session after the run and the log of the run,
\* followed by the log of the run that st.rerun() starts after a logout.
RECURSIVE script_run(_, _, _, _)
script_run(ss, sec, event, logout) ==
    LET gate == check_password(ss)
        entry(screen, body) ==
            [event |-> event, screen |-> screen, body |-> body,
             password_correct |->
                 /\ "password_correct" \in DOMAIN gate.session_state
                 /\ gate.session_state["password_correct"] = TRUE]
    IN  IF ~gate.result
        THEN [session_state |-> gate.session_state,
              log |-> << entry(gate.screen, FALSE) >>]
        ELSE IF ~sec.api_key
        THEN [session_state |-> gate.session_state,
              log |-> << entry("configuration error", TRUE) >>]
        ELSE IF logout
        THEN LET again == script_run(EmptyCache, sec, "rerun", FALSE)
             IN  [session_state |-> again.session_state,
                  log |-> << entry("logout", TRUE) >> \o again.log]
        ELSE [session_state |-> main_session(gate.session_state),
              log |-> << entry("application", TRUE) >>]

TypedPasswords == {"s3cret", "guess", ""}

InitGate ==
    /\ secrets \in [app_password : {"s3cret"}, api_key : BOOLEAN]
    /\ session_state = EmptyCache
    /\ gate_run = <<>>
    /\ FormatIdle
    /\ RolesIdle
    /\ HouseholdIdle
    /\ AddIdle
    /\ CacheIdle

\* what the last script run showed ("" before the first run)
last_screen == IF Len(gate_run) = 0 THEN "" ELSE gate_run[Len(gate_run)].screen

\* the browser opens the page, or an interaction that changes no key
Rerun ==
    /\ secrets # <<>>
    /\ Len(gate_run) < MaxRuns
    /\ LET ran == script_run(session_state, secrets, "rerun", FALSE)
       IN  /\ session_state' = ran.session_state
           /\ gate_run' = gate_run \o ran.log
    /\ UNCHANGED <<secrets, fvars, rvars, hvars, avars, cvars>>

\* a new value typed into the password widget: the callback, then the run
EnterPassword ==
    /\ secrets # <<>>
    /\ Len(gate_run) < MaxRuns
    /\ last_screen \in {"enter password", "incorrect password"}
    /\ \E typed \in TypedPasswords :
          /\ typed # session_state["password"]
          /\ LET ran == script_run(
                            password_entered(Put(session_state, "password", typed),
                                             secrets),
                            secrets, "password " \o typed, FALSE)
             IN  /\ session_state' = ran.session_state
                 /\ gate_run' = gate_run \o ran.log
    /\ UNCHANGED <<secrets, fvars, rvars, hvars, avars, cvars>>

\* the logout button of the sidebar
Logout ==
    /\ secrets # <<>>
    /\ Len(gate_run) + 1 < MaxRuns
    /\ last_screen = "application"
    /\ LET ran == script_run(session_state, secrets, "logout", TRUE)
       IN  /\ session_state' = ran.session_state
           /\ gate_run' = gate_run \o ran.log
    /\ UNCHANGED <<secrets, fvars, rvars, hvars, avars, cvars>>

\* a widget of the household pages is filled in
UseApplication ==
    /\ secrets # <<>>
    /\ Len(gate_run) < MaxRuns
    /\ last_screen = "application"
    /\ \E first \in {"John", "Jane"} :
          LET ran == script_run(Put(session_state, "existing_first", first),
                                secrets, "widget", FALSE)
          IN  /\ session_state' = ran.session_state
              /\ gate_run' = gate_run \o ran.log
    /\ UNCHANGED <<secrets, fvars, rvars, hvars, avars, cvars>>

NextGate == Rerun \/ EnterPassword \/ Logout \/ UseApplication

SpecGate == InitGate /\ [][NextGate]_vars

(***************************************************************************)
(* Claims about the password gate                                          *)
(***************************************************************************)
gate_runs == 1..Len(gate_run)

\* the run k was started by typing the password typed
entered(k, typed) == gate_run[k].event = "password " \o typed

\* C30: in every sequence of password entries, logouts and reruns the
\* application body is entered only in a run in which
\* session_state["password_correct"] is True; a correct entry removes the
\* typed password from the session, an incorrect entry sets
\* password_correct to False and keeps the gate closed, and a logout
\* deletes every session key, so that the next run is gated again.
C30_PasswordGate ==
    /\ \A k \in gate_runs : gate_run[k].body => gate_run[k].password_correct
    /\ \A k \in gate_runs :
          entered(k, secrets.app_password) =>
              /\ gate_run[k].body
              /\ k = Len(gate_run) =>
                    /\ "password" \notin DOMAIN session_state
                    /\ session_state["password_correct"] = TRUE
    /\ \A k \in gate_runs : \A typed \in TypedPasswords \ {secrets.app_password} :
          entered(k, typed) =>
              /\ ~gate_run[k].body
              /\ gate_run[k].screen = "incorrect password"
              /\ k = Len(gate_run) => session_state["password_correct"] = FALSE
    /\ \A k \in gate_runs :
          gate_run[k].event = "logout" =>
              /\ k < Len(gate_run)
              /\ ~gate_run[k + 1].body
              /\ gate_run[k + 1].screen = "enter password"
              /\ k + 1 = Len(gate_run) => DOMAIN session_state = {"password"}

\* C30 witness: the page is opened, a wrong password is typed, then the
\* right one, then the logout button is pressed: the session holds nothing
\* but the empty password widget and the gate is closed again.
C30_Witness ==
    /\ Len(gate_run) = 5
    /\ gate_run[1].screen = "enter password"
    /\ entered(2, "guess") /\ ~gate_run[2].body
    /\ entered(3, "s3cret") /\ gate_run[3].body
    /\ gate_run[4].event = "logout"
    /\ gate_run[5].screen = "enter password"
    /\ "password_correct" \notin DOMAIN session_state
    /\ session_state["password"] = ""

====
